---- MODULE Spec2Model ----
(***************************************************************************)
(* Chirpy (ts-http-server): the authentication and session-token core.     *)
(* The store (users, chirps, refresh_tokens), the clock and the HTTP       *)
(* handlers that act on them.  A handler runs as one step: every handler   *)
(* reads the store at most once before its only write, except the Polka    *)
(* webhook, whose read and write are also modelled as separate steps of    *)
(* concurrent deliveries (SpecWebhook).                                    *)
(***************************************************************************)
EXTENDS Integers, Sequences, FiniteSets, TLC

\* ------------------------------------------------------------------ bounds
\* user rows ever created (uuid primary keys are handed out as 1, 2, ...)
MaxUsers == 2
\* refresh tokens ever generated (randomBytes values, handed out as 1, 2, ...)
MaxTokens == 2
\* chirp rows ever created
MaxChirps == 2
\* webhook deliveries in flight at once
MaxDeliveries == 2
\* logins in flight at once
MaxLogins == 2
\* seconds the clock of the token codec runs for
MaxClock == 3
\* longest lifetime, in seconds, the token codec is asked for
MaxTTL == 2
\* calls of hashPassword in the run of the password functions alone
MaxHashes == 4
\* requests for /app counted between two resets
MaxHits == 2
\* registrations and self-updates in flight at once
MaxRequests == 2

\* ------------------------------------------------------- program constants
\* makeJWT(user.id, 3600, ...): lifetime of an access token, in seconds
AccessTTL == 3600
\* 1000 * 60 * 60 * 24 * 60 ms: lifetime of a refresh token, here in seconds
RefreshTTL == 60 * 60 * 24 * 60
\* body.length > 140
MaxChirpLen == 140

\* config.api.jwtSecret, and a secret the server does not use
jwtSecret == "jwt-secret"
otherSecret == "not-the-secret"
\* config.api.polkaWebhookSecret
polkaWebhookSecret == "polka-key"
\* values of the PLATFORM environment variable that config.api.platform gets
Platforms == {"dev", "production"}

\* ---------------------------------------------------------------- values
\* One word of a header value.  A header value is the sequence of the words
\* that value.split(' ') yields; the absent header is the empty sequence.
Lit(s) == [kind |-> "lit", s |-> s]
\* an opaque 64-hex-digit string; 0 is a string the server never generates
Opaque(n) == [kind |-> "opaque", n |-> n]
Junk == Opaque(0)
\* a user id no row ever gets
NoUserId == 0
\* a chirp id no row ever gets
NoChirpId == 0
\* a query that matches no row yields undefined
NoRow == [kind |-> "undefined"]
\* no access token: makeJWT has not been called
NoToken == [kind |-> "none"]
\* validateJWT has not been called on the token last issued
NoResult == [kind |-> "none"]
\* a nullable column holding null
Null == 0 - 1

Emails == {"a@x", "b@x"}
Passwords == {"pw1", "pw2"}
\* a missing or empty field of a JSON body (falsy)
Missing == ""
\* the salt of the hashes the handlers store: which salt a stored hash
\* carries changes no response, so one stands for all
Salts == {1}

\* The instants the clock visits, in seconds since the first request: a
\* refresh token made at 0 expires at the second, an access token made at the
\* second expires at the third.
Instants == {0, RefreshTTL, RefreshTTL + AccessTTL}

VARIABLES
    users,          \* table users: id -> row
    chirps,         \* table chirps: id -> row
    refreshTokens,  \* table refresh_tokens: token -> row
    now,            \* Date.now(), in seconds
    handedOut,      \* how many user ids, refresh tokens and chirp ids exist so far
    revoked,        \* the refresh tokens a completed revoke request has named
    resp,           \* the endpoint last served and the status it answered
    deliveries,     \* concurrent webhook deliveries: where each one stands
    logins,         \* concurrent logins: where each one stands
    codec,          \* the token makeJWT last returned and what validateJWT said of it
    bcrypt,         \* the hashes hashPassword returned and what verifyPassword last said
    config,         \* config.api: the platform and the file-server hit counter
    requests        \* registrations and self-updates in flight

vars == <<users, chirps, refreshTokens, now, handedOut, revoked, resp, deliveries,
          logins, codec, bcrypt, config, requests>>

\* ------------------------------------------------------- results, errors
Ok(v) == [ok |-> TRUE, val |-> v]
Throw(name, message) == [ok |-> FALSE, err |-> [name |-> name, message |-> message]]

\* api/errorHandler.ts: the status and body an error leaves the server with
errorHandler(err) ==
    IF err.name = "NotFoundError" THEN [status |-> 404, body |-> [error |-> err.message]]
    ELSE IF err.name = "BadRequestError" THEN [status |-> 400, body |-> [error |-> err.message]]
    ELSE IF err.name = "InternalServerError" THEN [status |-> 500, body |-> [error |-> err.message]]
    ELSE IF err.name = "ForbiddenError" THEN [status |-> 403, body |-> [error |-> err.message]]
    ELSE IF err.name = "UnauthorizedError" THEN [status |-> 401, body |-> [error |-> err.message]]
    ELSE [status |-> 500,
          body |-> [error |-> "Something went wrong on our end. Please try again later."]]

\* ------------------------------------------------------------ api/auth.ts
hashPassword_unsalted(password, salt) == [kind |-> "bcrypt", pw |-> password, salt |-> 0]

\* bcrypt.hash(password, 10): the hash carries the salt it was made with
hashPassword(password, salt) == [kind |-> "bcrypt", pw |-> password, salt |-> salt]

\* bcrypt.compare(password, hash)
verifyPassword(password, hash) == hash.pw = password

makeJWT_issuedAtExpiry(userId, expiresIn, secret, t) ==
    [kind |-> "jwt", iss |-> "chirpy", sub |-> userId, iat |-> t, exp |-> t, key |-> secret]

\* jwt.sign({iss, sub, iat, exp}, secret) at time t; key stands for the HMAC
makeJWT(userId, expiresIn, secret, t) ==
    [kind |-> "jwt", iss |-> "chirpy", sub |-> userId, iat |-> t,
     exp |-> t + expiresIn, key |-> secret]

validateJWT_checksUser(tokenString, secret, t) ==
    IF tokenString.kind # "jwt" THEN Throw("UnauthorizedError", "Invalid token")
    ELSE IF tokenString.key # secret THEN Throw("UnauthorizedError", "Invalid token")
    ELSE IF t >= tokenString.exp THEN Throw("UnauthorizedError", "Token has expired")
    ELSE IF tokenString.sub \notin DOMAIN users
         THEN Throw("UnauthorizedError", "Invalid token: missing user ID")
    ELSE Ok(tokenString.sub)

validateJWT_inclusive(tokenString, secret, t) ==
    IF tokenString.kind # "jwt" THEN Throw("UnauthorizedError", "Invalid token")
    ELSE IF tokenString.key # secret THEN Throw("UnauthorizedError", "Invalid token")
    ELSE IF t > tokenString.exp THEN Throw("UnauthorizedError", "Token has expired")
    ELSE IF tokenString.sub = NoUserId
         THEN Throw("UnauthorizedError", "Invalid token: missing user ID")
    ELSE Ok(tokenString.sub)

validateJWT_noSignature(tokenString, secret, t) ==
    IF tokenString.kind # "jwt" THEN Throw("UnauthorizedError", "Invalid token")
    ELSE IF t >= tokenString.exp THEN Throw("UnauthorizedError", "Token has expired")
    ELSE IF tokenString.sub = NoUserId
         THEN Throw("UnauthorizedError", "Invalid token: missing user ID")
    ELSE Ok(tokenString.sub)

validateJWT_noExpiry(tokenString, secret, t) ==
    IF tokenString.kind # "jwt" THEN Throw("UnauthorizedError", "Invalid token")
    ELSE IF tokenString.key # secret THEN Throw("UnauthorizedError", "Invalid token")
    ELSE IF tokenString.sub = NoUserId
         THEN Throw("UnauthorizedError", "Invalid token: missing user ID")
    ELSE Ok(tokenString.sub)

\* jwt.verify checks the structure, then the signature, then exp
validateJWT(tokenString, secret, t) ==
    IF tokenString.kind # "jwt" THEN Throw("UnauthorizedError", "Invalid token")
    ELSE IF tokenString.key # secret THEN Throw("UnauthorizedError", "Invalid token")
    ELSE IF t >= tokenString.exp THEN Throw("UnauthorizedError", "Token has expired")
    ELSE IF tokenString.sub = NoUserId
         THEN Throw("UnauthorizedError", "Invalid token: missing user ID")
    ELSE Ok(tokenString.sub)

getBearerToken_anyScheme(authHeader) ==
    IF Len(authHeader) < 2
    THEN Throw("UnauthorizedError", "Missing or invalid authorization header")
    ELSE Ok(authHeader[2])

\* startsWith('Bearer ') holds when the first word is Bearer and a space follows
getBearerToken(authHeader) ==
    IF Len(authHeader) < 2 \/ authHeader[1] # Lit("Bearer")
    THEN Throw("UnauthorizedError", "Missing or invalid authorization header")
    ELSE Ok(authHeader[2])

getAPIKey_anyScheme(authHeader) ==
    IF Len(authHeader) < 2
    THEN Throw("UnauthorizedError", "Missing or invalid authorization header")
    ELSE Ok(authHeader[2])

getAPIKey(authHeader) ==
    IF Len(authHeader) < 2 \/ authHeader[1] # Lit("ApiKey")
    THEN Throw("UnauthorizedError", "Missing or invalid authorization header")
    ELSE Ok(authHeader[2])

\* ------------------------------------------------------ db/queries/users.ts
\* the ids of the rows a WHERE clause selects
UsersWithEmail(email) == {i \in DOMAIN users : users[i].email = email}

getUserById(userId) == IF userId \in DOMAIN users THEN users[userId] ELSE NoRow

getUserByEmail(email) ==
    IF UsersWithEmail(email) = {} THEN NoRow
    ELSE users[CHOOSE i \in UsersWithEmail(email) : TRUE]

\* ----------------------------------------------------- db/queries/tokens.ts
createRefreshToken_noTTL(token, userId) ==
    IF userId \notin DOMAIN users
    THEN Throw("PostgresError", "violates foreign key constraint")
    ELSE Ok((token :> [token |-> token, user_id |-> userId, createdAt |-> now,
                       updatedAt |-> now, expiresAt |-> now,
                       revokedAt |-> Null]) @@ refreshTokens)

createRefreshToken_single(token, userId) ==
    IF userId \notin DOMAIN users
    THEN Throw("PostgresError", "violates foreign key constraint")
    ELSE Ok((token :> [token |-> token, user_id |-> userId, createdAt |-> now,
                       updatedAt |-> now, expiresAt |-> now + RefreshTTL,
                       revokedAt |-> Null])
            @@ [k \in DOMAIN refreshTokens |->
                   IF refreshTokens[k].user_id = userId /\ refreshTokens[k].revokedAt = Null
                   THEN [refreshTokens[k] EXCEPT !.revokedAt = now, !.updatedAt = now]
                   ELSE refreshTokens[k]])

createRefreshToken_noForeignKey(token, userId) ==
    Ok((token :> [token |-> token, user_id |-> userId, createdAt |-> now,
                  updatedAt |-> now, expiresAt |-> now + RefreshTTL,
                  revokedAt |-> Null]) @@ refreshTokens)

\* INSERT INTO refresh_tokens: user_id references users(id)
createRefreshToken(token, userId) ==
    IF userId \notin DOMAIN users
    THEN Throw("PostgresError", "violates foreign key constraint")
    ELSE Ok((token :> [token |-> token, user_id |-> userId, createdAt |-> now,
                       updatedAt |-> now, expiresAt |-> now + RefreshTTL,
                       revokedAt |-> Null]) @@ refreshTokens)

getUserFromRefreshToken(token) ==
    IF token \in DOMAIN refreshTokens THEN refreshTokens[token] ELSE NoRow

revokeRefreshToken_deleteRow(token) ==
    [k \in DOMAIN refreshTokens \ {token} |-> refreshTokens[k]]

revokeRefreshToken_noWrite(token) == refreshTokens

\* UPDATE refresh_tokens SET revoked_at = now WHERE token = $1 ($onUpdate
\* bumps updated_at); no row matching is no error
revokeRefreshToken(token) ==
    [k \in DOMAIN refreshTokens |->
        IF k = token
        THEN [refreshTokens[k] EXCEPT !.revokedAt = now, !.updatedAt = now]
        ELSE refreshTokens[k]]

\* ------------------------------------------------------ db/queries/users.ts
createUser_upsert(id, email, hashedPassword) ==
    IF UsersWithEmail(email) # {}
    THEN LET old == CHOOSE i \in UsersWithEmail(email) : TRUE
             row == [id |-> old, email |-> email, hashedPassword |-> hashedPassword,
                     isChirpyRed |-> FALSE]
         IN [users |-> [users EXCEPT ![old] = row], row |-> row]
    ELSE LET row == [id |-> id, email |-> email, hashedPassword |-> hashedPassword,
                     isChirpyRed |-> FALSE]
         IN [users |-> (id :> row) @@ users, row |-> row]

\* INSERT ... ON CONFLICT DO NOTHING RETURNING: the new table and the row, or
\* the table as it was and undefined when the email is taken
createUser(id, email, hashedPassword) ==
    IF UsersWithEmail(email) # {} THEN [users |-> users, row |-> NoRow]
    ELSE LET row == [id |-> id, email |-> email, hashedPassword |-> hashedPassword,
                     isChirpyRed |-> FALSE]
         IN [users |-> (id :> row) @@ users, row |-> row]

\* ------------------------------------------------ what a handler leaves
\* the tables after the handler, the tokens it minted, the response it sent
\* and the store calls it made, in order
Done(u, c, r, mint, status, body, calls) ==
    [users |-> u, chirps |-> c, refreshTokens |-> r, mint |-> mint,
     status |-> status, body |-> body, calls |-> calls]

\* the handler threw: index.ts passes the error to errorHandler
Fail(thrown, calls) ==
    [users |-> users, chirps |-> chirps, refreshTokens |-> refreshTokens, mint |-> {},
     status |-> errorHandler(thrown.err).status, body |-> errorHandler(thrown.err).body,
     calls |-> calls, thrown |-> thrown.err]

NoBody == [empty |-> TRUE]

\* reading a property of undefined
TypeError == Throw("TypeError", "Cannot read properties of undefined")

\* ------------------------------------------------------------ api/users.ts
handlerAddUser(req, id, salt) ==
    IF req.email = Missing \/ req.password = Missing
    THEN Fail(Throw("BadRequestError", "Email and password are required"), <<>>)
    ELSE LET made == createUser(id, req.email, hashPassword(req.password, salt))
         IN IF made.row = NoRow
            THEN Fail(Throw("BadRequestError", "Email already exists"), <<"createUser">>)
            ELSE Done(made.users, chirps, refreshTokens, {}, 201,
                      [id |-> made.row.id, email |-> made.row.email,
                       isChirpyRed |-> made.row.isChirpyRed],
                      <<"createUser">>)

\* ------------------------------------------------------------ api/auth.ts
\* The handler up to the row that await getUserByEmail(email) yields and the
\* password check on it: the response when it ends there, else the row read.
loginRead(req) ==
    IF req.email = Missing \/ req.password = Missing
    THEN [ended |-> TRUE,
          out |-> Fail(Throw("BadRequestError", "Email and password are required"), <<>>)]
    ELSE LET user == getUserByEmail(req.email)
         IN IF user = NoRow
            \* user.hashedPassword is read before the !user test
            THEN [ended |-> TRUE, out |-> Fail(TypeError, <<"getUserByEmail">>)]
            ELSE IF ~verifyPassword(req.password, user.hashedPassword)
            THEN [ended |-> TRUE,
                  out |-> Fail(Throw("UnauthorizedError", "Incorrect email or password"),
                               <<"getUserByEmail">>)]
            ELSE [ended |-> FALSE, user |-> user]

\* The handler from the row read on, run on the store as it is now: the
\* refresh token is stored, then the access token is signed and both are sent.
\* req.body.expiresIn is not read.
loginWrite(user, newToken) ==
    LET made == createRefreshToken(newToken, user.id)
    IN IF ~made.ok THEN Fail(made, <<"getUserByEmail", "createRefreshToken">>)
       ELSE LET token == makeJWT(user.id, AccessTTL, jwtSecret, now)
            IN Done(users, chirps, made.val, {token}, 200,
                    [id |-> user.id, email |-> user.email, token |-> token,
                     isChirpyRed |-> user.isChirpyRed, refreshToken |-> newToken],
                    <<"getUserByEmail", "createRefreshToken">>)

\* a login served with nothing in between its read and its write
handlerLogin(req, newToken) ==
    LET read == loginRead(req)
    IN IF read.ended THEN read.out ELSE loginWrite(read.user, newToken)

handlerRefresh_newestUser(authHeader) ==
    LET bearer == getBearerToken(authHeader)
    IN IF ~bearer.ok THEN Fail(bearer, <<>>)
       ELSE LET refreshTokenRecord == getUserFromRefreshToken(bearer.val)
            IN IF \/ refreshTokenRecord = NoRow
                  \/ refreshTokenRecord.expiresAt < now
                  \/ refreshTokenRecord.revokedAt # Null
               THEN Fail(Throw("UnauthorizedError", "Invalid refresh token"),
                         <<"getUserFromRefreshToken">>)
               ELSE LET token == makeJWT(handedOut.user, AccessTTL, jwtSecret, now)
                    IN Done(users, chirps, refreshTokens, {token}, 200,
                            [token |-> token], <<"getUserFromRefreshToken">>)

handlerRefresh_rotate(authHeader) ==
    LET bearer == getBearerToken(authHeader)
    IN IF ~bearer.ok THEN Fail(bearer, <<>>)
       ELSE LET refreshTokenRecord == getUserFromRefreshToken(bearer.val)
            IN IF \/ refreshTokenRecord = NoRow
                  \/ refreshTokenRecord.expiresAt < now
                  \/ refreshTokenRecord.revokedAt # Null
               THEN Fail(Throw("UnauthorizedError", "Invalid refresh token"),
                         <<"getUserFromRefreshToken">>)
               ELSE LET token == makeJWT(refreshTokenRecord.user_id, AccessTTL,
                                         jwtSecret, now)
                    IN Done(users, chirps, revokeRefreshToken(bearer.val), {token}, 200,
                            [token |-> token],
                            <<"getUserFromRefreshToken", "revokeRefreshToken">>)

handlerRefresh(authHeader) ==
    LET bearer == getBearerToken(authHeader)
    IN IF ~bearer.ok THEN Fail(bearer, <<>>)
       ELSE IF bearer.val = Lit("")
       THEN Fail(Throw("UnauthorizedError", "Missing refresh token"), <<>>)
       ELSE LET refreshTokenRecord == getUserFromRefreshToken(bearer.val)
            IN IF \/ refreshTokenRecord = NoRow
                  \/ refreshTokenRecord.expiresAt < now
                  \/ refreshTokenRecord.revokedAt # Null
               THEN Fail(Throw("UnauthorizedError", "Invalid refresh token"),
                         <<"getUserFromRefreshToken">>)
               ELSE LET token == makeJWT(refreshTokenRecord.user_id, AccessTTL,
                                         jwtSecret, now)
                    IN Done(users, chirps, refreshTokens, {token}, 200,
                            [token |-> token], <<"getUserFromRefreshToken">>)

handlerRevoke(authHeader) ==
    LET bearer == getBearerToken(authHeader)
    IN IF ~bearer.ok THEN Fail(bearer, <<>>)
       ELSE Done(users, chirps, revokeRefreshToken(bearer.val), {}, 204, NoBody,
                 <<"revokeRefreshToken">>)

\* ----------------------------------------------------- db/queries/chirps.ts
getChirpById(chirpId) == IF chirpId \in DOMAIN chirps THEN chirps[chirpId] ELSE NoRow

\* INSERT INTO chirps: user_id references users(id)
createChirp(id, body, userId) ==
    IF userId \notin DOMAIN users
    THEN Throw("PostgresError", "violates foreign key constraint")
    ELSE Ok([id |-> id, body |-> body, userId |-> userId])

deleteChirp_allOfUser(chirpId, userId) ==
    [k \in {i \in DOMAIN chirps : chirps[i].userId # userId} |-> chirps[k]]

\* DELETE FROM chirps WHERE id = $1 AND user_id = $2
deleteChirp(chirpId, userId) ==
    [k \in {i \in DOMAIN chirps : ~(i = chirpId /\ chirps[i].userId = userId)} |->
        chirps[k]]

updateUser_noUnique(userId, email, hashedPassword) ==
    IF userId \notin DOMAIN users THEN Ok([users |-> users, row |-> NoRow])
    ELSE LET row == [users[userId] EXCEPT !.email = email,
                                          !.hashedPassword = hashedPassword]
         IN Ok([users |-> [users EXCEPT ![userId] = row], row |-> row])

updateUser_resetsPremium(userId, email, hashedPassword) ==
    IF userId \notin DOMAIN users THEN Ok([users |-> users, row |-> NoRow])
    ELSE IF UsersWithEmail(email) \ {userId} # {}
    THEN Throw("PostgresError", "duplicate key value violates unique constraint")
    ELSE LET row == [users[userId] EXCEPT !.email = email,
                                          !.hashedPassword = hashedPassword,
                                          !.isChirpyRed = FALSE]
         IN Ok([users |-> [users EXCEPT ![userId] = row], row |-> row])

\* ------------------------------------------------------ db/queries/users.ts
\* UPDATE users SET email, hashed_password WHERE id = $1 RETURNING
updateUser(userId, email, hashedPassword) ==
    IF userId \notin DOMAIN users THEN Ok([users |-> users, row |-> NoRow])
    ELSE IF UsersWithEmail(email) \ {userId} # {}
    THEN Throw("PostgresError", "duplicate key value violates unique constraint")
    ELSE LET row == [users[userId] EXCEPT !.email = email,
                                          !.hashedPassword = hashedPassword]
         IN Ok([users |-> [users EXCEPT ![userId] = row], row |-> row])

upgradeUser_toggle(userId) ==
    [k \in DOMAIN users |->
        IF k = userId THEN [users[k] EXCEPT !.isChirpyRed = ~@] ELSE users[k]]

\* UPDATE users SET is_chirpy_red = true WHERE id = $1
upgradeUser(userId) ==
    [k \in DOMAIN users |->
        IF k = userId THEN [users[k] EXCEPT !.isChirpyRed = TRUE] ELSE users[k]]

\* ----------------------------------------------------------- api/chirps.ts
\* a chirp body is the sequence of the words body.split(' ') yields; <<>> is
\* a request without a body field
LongWord ==
    "aaaaaaaaaaaaaaaaaaaaaaaaaaaaaaaaaaaaaaaaaaaaaaaaaaaaaaaaaaaaaaaaaaaaaaaaaaaaaaaaaaaaaaaaaaaaaaaaaaaaaaaaaaaaaaaaaaaaaaaaaaaaaaaaaaaaaaaaaaaaaaaaa"

\* str.toLowerCase() on the words the requests use
toLowerCase(str) ==
    IF str = "Fornax" THEN "fornax"
    ELSE IF str = "KERFUFFLE" THEN "kerfuffle"
    ELSE str

RECURSIVE SumLen(_)
SumLen(words) == IF words = <<>> THEN 0 ELSE Len(Head(words)) + SumLen(Tail(words))

\* body.length: the words and the spaces between them
BodyLength(body) == SumLen(body) + Len(body) - 1

cleanedBody_spelledOut(body) ==
    [i \in DOMAIN body |->
        IF toLowerCase(body[i]) \in {"kerfuffle", "sharbert", "fornax"}
        THEN "[redacted]" ELSE body[i]]

cleanedBody(body) ==
    [i \in DOMAIN body |->
        IF toLowerCase(body[i]) \in {"kerfuffle", "sharbert", "fornax"}
        THEN "****" ELSE body[i]]

handlerCreateChirp_bodyUserId(req, id) ==
    LET bearer == getBearerToken(req.auth)
    IN IF ~bearer.ok THEN Fail(bearer, <<>>)
       ELSE LET userId == validateJWT(bearer.val, jwtSecret, now)
            IN IF ~userId.ok THEN Fail(userId, <<>>)
               ELSE IF req.body = <<>> THEN Fail(TypeError, <<>>)
               ELSE IF BodyLength(req.body) > MaxChirpLen
               THEN Fail(Throw("BadRequestError", "Chirp is too long. Max length is 140"),
                         <<>>)
               ELSE LET made == createChirp(id, cleanedBody(req.body), req.userId)
                    IN IF ~made.ok THEN Fail(made, <<"createChirp">>)
                       ELSE Done(users, (id :> made.val) @@ chirps, refreshTokens, {},
                                 201, made.val, <<"createChirp">>)

handlerCreateChirp(req, id) ==
    LET bearer == getBearerToken(req.auth)
    IN IF ~bearer.ok THEN Fail(bearer, <<>>)
       ELSE LET userId == validateJWT(bearer.val, jwtSecret, now)
            IN IF ~userId.ok THEN Fail(userId, <<>>)
               ELSE IF req.body = <<>> THEN Fail(TypeError, <<>>)
               ELSE IF BodyLength(req.body) > MaxChirpLen
               THEN Fail(Throw("BadRequestError", "Chirp is too long. Max length is 140"),
                         <<>>)
               ELSE LET made == createChirp(id, cleanedBody(req.body), userId.val)
                    IN IF ~made.ok THEN Fail(made, <<"createChirp">>)
                       ELSE Done(users, (id :> made.val) @@ chirps, refreshTokens, {},
                                 201, made.val, <<"createChirp">>)

\* GET /api/chirps/:chirpId
handlerGetChirpById(chirpId) ==
    LET chirp == getChirpById(chirpId)
    IN IF chirp = NoRow
       THEN Fail(Throw("NotFoundError", "Chirp not found"), <<"getChirpById">>)
       ELSE Done(users, chirps, refreshTokens, {}, 200, chirp, <<"getChirpById">>)

handlerDeleteChirp_lookupFirst(req) ==
    LET chirp == getChirpById(req.chirpId)
    IN IF chirp = NoRow
       THEN Fail(Throw("NotFoundError", "Chirp not found"), <<"getChirpById">>)
       ELSE LET bearer == getBearerToken(req.auth)
            IN IF ~bearer.ok THEN Fail(bearer, <<"getChirpById">>)
               ELSE LET userId == validateJWT(bearer.val, jwtSecret, now)
                    IN IF ~userId.ok THEN Fail(userId, <<"getChirpById">>)
                       ELSE IF chirp.userId # userId.val
                       THEN Fail(Throw("ForbiddenError",
                                       "You are not allowed to delete this chirp"),
                                 <<"getChirpById">>)
                       ELSE Done(users, deleteChirp(req.chirpId, userId.val),
                                 refreshTokens, {}, 204, NoBody,
                                 <<"getChirpById", "deleteChirp">>)

handlerDeleteChirp_ownerFirst(req) ==
    LET bearer == getBearerToken(req.auth)
    IN IF ~bearer.ok THEN Fail(bearer, <<>>)
       ELSE LET userId == validateJWT(bearer.val, jwtSecret, now)
            IN IF ~userId.ok THEN Fail(userId, <<>>)
               ELSE LET chirp == getChirpById(req.chirpId)
                    IN IF chirp = NoRow \/ chirp.userId # userId.val
                       THEN Fail(Throw("ForbiddenError",
                                       "You are not allowed to delete this chirp"),
                                 <<"getChirpById">>)
                       ELSE Done(users, deleteChirp(req.chirpId, userId.val),
                                 refreshTokens, {}, 204, NoBody,
                                 <<"getChirpById", "deleteChirp">>)

handlerDeleteChirp_noOwnerCheck(req) ==
    LET bearer == getBearerToken(req.auth)
    IN IF ~bearer.ok THEN Fail(bearer, <<>>)
       ELSE LET userId == validateJWT(bearer.val, jwtSecret, now)
            IN IF ~userId.ok THEN Fail(userId, <<>>)
               ELSE IF getChirpById(req.chirpId) = NoRow
               THEN Fail(Throw("NotFoundError", "Chirp not found"), <<"getChirpById">>)
               ELSE Done(users, deleteChirp(req.chirpId, userId.val), refreshTokens, {},
                         204, NoBody, <<"getChirpById", "deleteChirp">>)

handlerDeleteChirp(req) ==
    LET bearer == getBearerToken(req.auth)
    IN IF ~bearer.ok THEN Fail(bearer, <<>>)
       ELSE LET userId == validateJWT(bearer.val, jwtSecret, now)
            IN IF ~userId.ok THEN Fail(userId, <<>>)
               ELSE LET chirp == getChirpById(req.chirpId)
                    IN IF chirp = NoRow
                       THEN Fail(Throw("NotFoundError", "Chirp not found"),
                                 <<"getChirpById">>)
                       ELSE IF chirp.userId # userId.val
                       THEN Fail(Throw("ForbiddenError",
                                       "You are not allowed to delete this chirp"),
                                 <<"getChirpById">>)
                       ELSE Done(users, deleteChirp(req.chirpId, userId.val),
                                 refreshTokens, {}, 204, NoBody,
                                 <<"getChirpById", "deleteChirp">>)

handlerUpdateUser_partial(req, salt) ==
    LET bearer == getBearerToken(req.auth)
    IN IF ~bearer.ok THEN Fail(bearer, <<>>)
       ELSE LET userId == validateJWT(bearer.val, jwtSecret, now)
            IN IF ~userId.ok THEN Fail(userId, <<>>)
               ELSE IF req.email = Missing /\ req.password = Missing
               THEN Fail(Throw("BadRequestError", "Email and password are required"),
                         <<>>)
               ELSE IF userId.val \notin DOMAIN users
               THEN Fail(Throw("BadRequestError", "User not found"), <<"updateUser">>)
               ELSE LET old == users[userId.val]
                        upd == updateUser(userId.val,
                                   IF req.email = Missing THEN old.email ELSE req.email,
                                   IF req.password = Missing THEN old.hashedPassword
                                   ELSE hashPassword(req.password, salt))
                    IN IF ~upd.ok THEN Fail(upd, <<"updateUser">>)
                       ELSE Done(upd.val.users, chirps, refreshTokens, {}, 200,
                                 [id |-> upd.val.row.id, email |-> upd.val.row.email,
                                  isChirpyRed |-> upd.val.row.isChirpyRed],
                                 <<"updateUser">>)

handlerUpdateUser_endsSessions(req, salt) ==
    LET bearer == getBearerToken(req.auth)
    IN IF ~bearer.ok THEN Fail(bearer, <<>>)
       ELSE LET userId == validateJWT(bearer.val, jwtSecret, now)
            IN IF ~userId.ok THEN Fail(userId, <<>>)
               ELSE IF req.email = Missing \/ req.password = Missing
               THEN Fail(Throw("BadRequestError", "Email and password are required"),
                         <<>>)
               ELSE LET upd == updateUser(userId.val, req.email,
                                          hashPassword(req.password, salt))
                    IN IF ~upd.ok THEN Fail(upd, <<"updateUser">>)
                       ELSE IF upd.val.row = NoRow
                       THEN Fail(Throw("BadRequestError", "User not found"),
                                 <<"updateUser">>)
                       ELSE Done(upd.val.users, chirps,
                                 [t \in DOMAIN refreshTokens |->
                                     IF refreshTokens[t].user_id = userId.val
                                     THEN [refreshTokens[t] EXCEPT !.revokedAt = now,
                                                                   !.updatedAt = now]
                                     ELSE refreshTokens[t]],
                                 {}, 200,
                                 [id |-> upd.val.row.id, email |-> upd.val.row.email,
                                  isChirpyRed |-> upd.val.row.isChirpyRed],
                                 <<"updateUser", "revokeRefreshToken">>)

\* ------------------------------------------------------------ api/users.ts
\* The handler from await updateUser(userId, {email, hashedPassword}) on, run
\* on the store as it is now.
updateUserWrite(userId, email, hashedPassword) ==
    LET upd == updateUser(userId, email, hashedPassword)
    IN IF ~upd.ok THEN Fail(upd, <<"updateUser">>)
       ELSE IF upd.val.row = NoRow
       THEN Fail(Throw("BadRequestError", "User not found"), <<"updateUser">>)
       ELSE Done(upd.val.users, chirps, refreshTokens, {}, 200,
                 [id |-> upd.val.row.id, email |-> upd.val.row.email,
                  isChirpyRed |-> upd.val.row.isChirpyRed],
                 <<"updateUser">>)

\* a self-update served with nothing in between its awaits
handlerUpdateUser(req, salt) ==
    LET bearer == getBearerToken(req.auth)
    IN IF ~bearer.ok THEN Fail(bearer, <<>>)
       ELSE LET userId == validateJWT(bearer.val, jwtSecret, now)
            IN IF ~userId.ok THEN Fail(userId, <<>>)
               ELSE IF req.email = Missing \/ req.password = Missing
               THEN Fail(Throw("BadRequestError", "Email and password are required"),
                         <<>>)
               ELSE updateUserWrite(userId.val, req.email,
                                    hashPassword(req.password, salt))

polkaRead_anyEvent(req) ==
    LET apiKey == getAPIKey(req.auth)
    IN IF ~apiKey.ok THEN [ended |-> TRUE, out |-> Fail(apiKey, <<>>)]
       ELSE IF apiKey.val # Lit(polkaWebhookSecret)
       THEN [ended |-> TRUE,
             out |-> Fail(Throw("UnauthorizedError", "Invalid API key"), <<>>)]
       ELSE IF req.data = <<>> THEN [ended |-> TRUE, out |-> Fail(TypeError, <<>>)]
       ELSE [ended |-> FALSE, userId |-> req.data[1], user |-> getUserById(req.data[1])]

\* --------------------------------------------------------- api/webhooks.ts
\* req.data is <<>> when the body has no data object, else <<data.userId>>.
\* The handler up to the row that await getUserById(userId) yields: the
\* response when it ends before, else the row read.
polkaRead(req) ==
    LET apiKey == getAPIKey(req.auth)
    IN IF ~apiKey.ok THEN [ended |-> TRUE, out |-> Fail(apiKey, <<>>)]
       ELSE IF apiKey.val # Lit(polkaWebhookSecret)
       THEN [ended |-> TRUE,
             out |-> Fail(Throw("UnauthorizedError", "Invalid API key"), <<>>)]
       ELSE IF req.event # "user.upgraded"
       THEN [ended |-> TRUE,
             out |-> Done(users, chirps, refreshTokens, {}, 204, NoBody, <<>>)]
       ELSE IF req.data = <<>> THEN [ended |-> TRUE, out |-> Fail(TypeError, <<>>)]
       ELSE [ended |-> FALSE, userId |-> req.data[1], user |-> getUserById(req.data[1])]

polkaUpgrade_ignoreMissing(userId, user) ==
    IF user = NoRow \/ user.isChirpyRed
    THEN Done(users, chirps, refreshTokens, {}, 204, NoBody, <<"getUserById">>)
    ELSE Done(upgradeUser(userId), chirps, refreshTokens, {}, 204, NoBody,
              <<"getUserById", "upgradeUser">>)

polkaUpgrade_always(userId, user) ==
    IF user = NoRow
    THEN Fail(Throw("NotFoundError", "User not found in database"), <<"getUserById">>)
    ELSE Done(upgradeUser(userId), chirps, refreshTokens, {}, 204, NoBody,
              <<"getUserById", "upgradeUser">>)

\* The handler from the row read on, run on the store as it is now.
polkaUpgrade(userId, user) ==
    IF user = NoRow
    THEN Fail(Throw("NotFoundError", "User not found in database"), <<"getUserById">>)
    ELSE IF user.isChirpyRed
    THEN Done(users, chirps, refreshTokens, {}, 204, NoBody, <<"getUserById">>)
    ELSE Done(upgradeUser(userId), chirps, refreshTokens, {}, 204, NoBody,
              <<"getUserById", "upgradeUser">>)

\* a delivery served with nothing in between its read and its write
handlerPolkaWebhook(req) ==
    LET read == polkaRead(req)
    IN IF read.ended THEN read.out ELSE polkaUpgrade(read.userId, read.user)

deleteAllUsers_anyPlatform ==
    Ok([users |-> <<>>,
        chirps |-> [k \in {i \in DOMAIN chirps : chirps[i].userId \notin DOMAIN users}
                       |-> chirps[k]],
        refreshTokens |->
            [k \in {i \in DOMAIN refreshTokens :
                       refreshTokens[i].user_id \notin DOMAIN users}
                |-> refreshTokens[k]]])

\* ------------------------------------------------------ db/queries/admin.ts
\* DELETE FROM users; chirps.user_id and refresh_tokens.user_id reference
\* users(id) ON DELETE CASCADE, so the rows of the deleted users go with them
deleteAllUsers ==
    IF config.platform # "dev"
    THEN Throw("ForbiddenError", "This action is only available in dev mode")
    ELSE Ok([users |-> <<>>,
             chirps |-> [k \in {i \in DOMAIN chirps : chirps[i].userId \notin DOMAIN users}
                            |-> chirps[k]],
             refreshTokens |->
                 [k \in {i \in DOMAIN refreshTokens :
                            refreshTokens[i].user_id \notin DOMAIN users}
                     |-> refreshTokens[k]]])

\* api/metrics.ts: config.api.fileServerHits = 0, then res.send('OK')
handlerResetMetrics == [config EXCEPT !.fileServerHits = 0]

\* POST /admin/reset: handlerResetMetrics sends OK, then deleteAllUsers runs;
\* when it throws, the response has been sent already and the 403 the catch
\* block goes on to send reaches nobody
handlerReset ==
    LET deleted == deleteAllUsers
    IN IF deleted.ok
       THEN Done(deleted.val.users, deleted.val.chirps, deleted.val.refreshTokens, {},
                 200, [text |-> "OK"], <<"deleteAllUsers">>)
       ELSE Done(users, chirps, refreshTokens, {}, 200, [text |-> "OK"],
                 <<"deleteAllUsers">>)

\* ------------------------------------------------------------- requests
\* JSON bodies of POST /api/users, POST /api/login and PUT /api/users.
\* Passwords are interchangeable: accounts are made with pw1, updated to pw2.
AddUserBodies == [email : Emails \cup {Missing}, password : {"pw1", Missing}]
\* expiresIn in the body of a login: <<>> when absent, else <<seconds>>
RequestedTTLs == {<<>>, <<0>>, <<60>>, <<2 * AccessTTL>>}
LoginBodies ==
    [email : Emails \cup {Missing}, password : Passwords \cup {Missing},
     expiresIn : RequestedTTLs]

\* identifiers are random: a client can name one the server handed out, or
\* one that no row ever gets
KnownUserIds == 0..handedOut.user
KnownChirpIds == 0..handedOut.chirp
KnownOpaque == {Opaque(n) : n \in 0..handedOut.token}

\* the access tokens logins have returned: one per refresh-token row
LoginTokens ==
    {makeJWT(refreshTokens[k].user_id, AccessTTL, jwtSecret, refreshTokens[k].createdAt) :
        k \in DOMAIN refreshTokens}

\* the logins in flight that were answered with an access token
LoggedIn == {d \in DOMAIN logins : logins[d].pc = "done" /\ logins[d].token # NoToken}

\* Authorization header values sent to /api/refresh and /api/revoke
SessionHeaders ==
    {<<>>, <<Lit("Bearer")>>, <<Lit("Bearer"), Lit("")>>,
     <<Lit("ApiKey"), Opaque(1)>>, <<Lit("bearer"), Opaque(1)>>,
     <<Lit("Bearer"), Opaque(1), Lit("x")>>}
        \cup {<<Lit("Bearer"), c>> : c \in KnownOpaque \cup LoginTokens}

\* Authorization header values sent to the endpoints that want an access token
AccessHeaders ==
    {<<>>, <<Lit("Bearer"), Junk>>, <<Lit("Bearer"), makeJWT(1, AccessTTL, otherSecret, now)>>}
        \cup {<<Lit("Bearer"), c>> : c \in LoginTokens}
        \cup {<<Lit("ApiKey"), c>> : c \in LoginTokens}
        \cup {<<Lit("Bearer"), logins[d].token>> : d \in LoggedIn}

\* Authorization header values sent to /api/polka/webhooks
WebhookHeaders ==
    {<<>>, <<Lit("ApiKey"), Lit(polkaWebhookSecret)>>, <<Lit("ApiKey"), Lit("wrong-key")>>,
     <<Lit("ApiKey"), Lit("POLKA-KEY")>>, <<Lit("Bearer"), Lit(polkaWebhookSecret)>>}

\* chirp bodies: none, one with a word to clean, one of 145 characters
Bodies == {<<>>, <<"Fornax", "hi">>, <<LongWord>>}

\* a userId field in the JSON body: none, or the id of the first user
BodyUserIds == {NoUserId, 1}

CreateChirpRequests == [auth : AccessHeaders, body : Bodies, userId : BodyUserIds]

\* words that bring a body to the limit: 140, 133 and 134 characters
Word140 == "bbbbbbbbbbbbbbbbbbbbbbbbbbbbbbbbbbbbbbbbbbbbbbbbbbbbbbbbbbbbbbbbbbbbbbbbbbbbbbbbbbbbbbbbbbbbbbbbbbbbbbbbbbbbbbbbbbbbbbbbbbbbbbbbbbbbbbbbbbbb"
Word133 == "ccccccccccccccccccccccccccccccccccccccccccccccccccccccccccccccccccccccccccccccccccccccccccccccccccccccccccccccccccccccccccccccccccccc"
Word134 == "dddddddddddddddddddddddddddddddddddddddddddddddddddddddddddddddddddddddddddddddddddddddddddddddddddddddddddddddddddddddddddddddddddddd"

\* chirp bodies at the limit of body.length > 140: of 140 characters without
\* and with a word to clean, of 141 with one, of 141 without any, and one
\* whose word only contains a word to clean
LimitBodies ==
    {<<Word140>>, <<"Fornax", Word133>>, <<"KERFUFFLE", "hi", "kerfuffle">>,
     <<"Fornax", Word134>>, <<Word134, "Fornax">>, <<Word134, "abcdef">>, <<"fornax!">>}

LimitRequests == [auth : AccessHeaders, body : LimitBodies, userId : {NoUserId}]

DeleteChirpRequests == [auth : AccessHeaders, chirpId : KnownChirpIds, userId : BodyUserIds]
UpdateUserRequests ==
    [auth : AccessHeaders, email : Emails \cup {Missing}, password : {"pw2", Missing},
     userId : BodyUserIds]
WebhookRequests ==
    [auth : WebhookHeaders, event : {"user.upgraded", "USER.UPGRADED", "user.payment_failed"},
     data : {<<>>} \cup {<<u>> : u \in KnownUserIds}]

\* --------------------------------------------------------------- actions
NoResponse == [op |-> "none", status |-> 0]

Init ==
    /\ users = <<>>
    /\ chirps = <<>>
    /\ refreshTokens = <<>>
    /\ now = 0
    /\ revoked = {}
    /\ handedOut = [user |-> 0, token |-> 0, chirp |-> 0]
    /\ resp = NoResponse
    /\ deliveries = [d \in 1..MaxDeliveries |-> [pc |-> "idle"]]
    /\ logins = [d \in 1..MaxLogins |-> [pc |-> "idle"]]
    /\ codec = [token |-> NoToken, result |-> NoResult]
    /\ bcrypt = [hashes |-> <<>>, result |-> NoResult]
    /\ config = [platform |-> "dev", fileServerHits |-> 0]
    /\ requests = [d \in 1..MaxRequests |-> [pc |-> "idle"]]

\* the server started with any PLATFORM; no route but /admin/reset reads it
InitAnyPlatform ==
    /\ users = <<>>
    /\ chirps = <<>>
    /\ refreshTokens = <<>>
    /\ now = 0
    /\ revoked = {}
    /\ handedOut = [user |-> 0, token |-> 0, chirp |-> 0]
    /\ resp = NoResponse
    /\ deliveries = [d \in 1..MaxDeliveries |-> [pc |-> "idle"]]
    /\ logins = [d \in 1..MaxLogins |-> [pc |-> "idle"]]
    /\ codec = [token |-> NoToken, result |-> NoResult]
    /\ bcrypt = [hashes |-> <<>>, result |-> NoResult]
    /\ \E platform \in Platforms : config = [platform |-> platform, fileServerHits |-> 0]
    /\ requests = [d \in 1..MaxRequests |-> [pc |-> "idle"]]

\* the tables, the response and the ids in use after a handler ended
Apply(op, out) ==
    LET used == [user |-> Cardinality(DOMAIN out.users \ DOMAIN users),
                 token |-> Cardinality(DOMAIN out.refreshTokens \ DOMAIN refreshTokens),
                 chirp |-> Cardinality(DOMAIN out.chirps \ DOMAIN chirps)]
    IN /\ handedOut.user + used.user <= MaxUsers
       /\ handedOut.token + used.token <= MaxTokens
       /\ handedOut.chirp + used.chirp <= MaxChirps
       /\ users' = out.users
       /\ chirps' = out.chirps
       /\ refreshTokens' = out.refreshTokens
       /\ handedOut' = [user |-> handedOut.user + used.user,
                        token |-> handedOut.token + used.token,
                        chirp |-> handedOut.chirp + used.chirp]
       /\ resp' = [op |-> op, status |-> out.status]
       /\ now' = now

\* the request is served in one step
Serve(op, req, out) ==
    /\ Apply(op, out)
    /\ UNCHANGED <<deliveries, logins, codec, bcrypt, config, requests>>

AddUser ==
    \E req \in AddUserBodies, salt \in Salts :
        /\ Serve("addUser", req, handlerAddUser(req, handedOut.user + 1, salt))
        /\ UNCHANGED revoked

Login ==
    \E req \in LoginBodies :
        /\ Serve("login", req, handlerLogin(req, Opaque(handedOut.token + 1)))
        /\ UNCHANGED revoked

Refresh ==
    \E h \in SessionHeaders :
        /\ Serve("refresh", [auth |-> h], handlerRefresh(h))
        /\ UNCHANGED revoked

Revoke ==
    \E h \in SessionHeaders :
        /\ Serve("revoke", [auth |-> h], handlerRevoke(h))
        /\ revoked' = revoked \cup
                IF getBearerToken(h).ok
                THEN {getBearerToken(h).val} \cap DOMAIN refreshTokens ELSE {}

CreateChirp ==
    \E req \in CreateChirpRequests :
        /\ Serve("createChirp", req, handlerCreateChirp(req, handedOut.chirp + 1))
        /\ UNCHANGED revoked

\* POST /api/chirps with a body at the length limit
CreateChirpAtLimit ==
    \E req \in LimitRequests :
        /\ Serve("createChirp", req, handlerCreateChirp(req, handedOut.chirp + 1))
        /\ UNCHANGED revoked

DeleteChirp ==
    \E req \in DeleteChirpRequests :
        /\ Serve("deleteChirp", req, handlerDeleteChirp(req))
        /\ UNCHANGED revoked

GetChirp ==
    \E chirpId \in KnownChirpIds :
        /\ Serve("getChirp", [chirpId |-> chirpId], handlerGetChirpById(chirpId))
        /\ UNCHANGED revoked

UpdateUser ==
    \E req \in UpdateUserRequests, salt \in Salts :
        /\ Serve("updateUser", req, handlerUpdateUser(req, salt))
        /\ UNCHANGED revoked

PolkaWebhook ==
    \E req \in WebhookRequests :
        /\ Serve("webhook", req, handlerPolkaWebhook(req))
        /\ UNCHANGED revoked

\* time passes, to the next instant the clock visits
Tick ==
    /\ \E t \in Instants : t > now
    /\ now' = CHOOSE t \in Instants : t > now /\ \A s \in Instants : s > now => t <= s
    /\ UNCHANGED <<users, chirps, refreshTokens, handedOut, revoked, resp, deliveries,
                   logins, codec, bcrypt, config, requests>>

\* ------------------------------------------------- the token codec alone
\* the arguments makeJWT and validateJWT are called with
Secrets == {jwtSecret, otherSecret}
Subjects == NoUserId..MaxUsers
Lifetimes == (0 - 1)..MaxTTL

\* makeJWT(userId, expiresIn, secret) is called
Issue ==
    \E userId \in Subjects, expiresIn \in Lifetimes, secret \in Secrets :
        /\ codec' = [token |-> makeJWT(userId, expiresIn, secret, now),
                     result |-> NoResult]
        /\ UNCHANGED <<users, chirps, refreshTokens, now, handedOut, revoked, resp,
                       deliveries, logins, bcrypt, config, requests>>

\* validateJWT(token, secret) is called on the token last issued
Verify ==
    /\ codec.token # NoToken
    /\ \E secret \in Secrets :
        codec' = [codec EXCEPT !.result =
                     [kind |-> "result", secret |-> secret, at |-> now,
                      out |-> validateJWT(codec.token, secret, now)]]
    /\ UNCHANGED <<users, chirps, refreshTokens, now, handedOut, revoked, resp,
                   deliveries, logins, bcrypt, config, requests>>

\* a second passes
Second ==
    /\ now < MaxClock
    /\ now' = now + 1
    /\ UNCHANGED <<users, chirps, refreshTokens, handedOut, revoked, resp, deliveries,
                   logins, codec, bcrypt, config, requests>>

\* the users table is emptied
Reset ==
    /\ Apply("reset", handlerReset)
    /\ config' = handlerResetMetrics
    /\ UNCHANGED <<revoked, deliveries, logins, codec, bcrypt, requests>>

\* GET /app/...: middlewareMetricsInc counts the request
FileServerHit ==
    /\ config.fileServerHits < MaxHits
    /\ config' = [config EXCEPT !.fileServerHits = @ + 1]
    /\ UNCHANGED <<users, chirps, refreshTokens, now, handedOut, revoked, resp,
                   deliveries, logins, codec, bcrypt, requests>>

\* a login arrives and runs up to its read of the users table
LoginRead(d) ==
    /\ logins[d].pc = "idle"
    /\ \E req \in LoginBodies :
        LET read == loginRead(req)
        IN logins' = [logins EXCEPT ![d] =
               IF read.ended
               THEN [pc |-> "done", user |-> NoRow, status |-> read.out.status,
                     token |-> NoToken]
               ELSE [pc |-> "read", user |-> read.user]]
    /\ UNCHANGED <<users, chirps, refreshTokens, now, handedOut, revoked, resp,
                   deliveries, codec, bcrypt, config, requests>>

\* the login goes on with the row it read: it stores a refresh token and answers
LoginWrite(d) ==
    /\ logins[d].pc = "read"
    /\ LET out == loginWrite(logins[d].user, Opaque(handedOut.token + 1))
       IN /\ Apply("login", out)
          /\ logins' = [logins EXCEPT ![d] =
                 [pc |-> "done", user |-> logins[d].user, status |-> out.status,
                  token |-> IF out.status = 200 THEN out.body.token ELSE NoToken]]
    /\ UNCHANGED <<revoked, deliveries, codec, bcrypt, config, requests>>

\* --------------------------- registrations and self-updates that interleave
\* A registration arrives and runs up to await hashPassword(password): it has
\* read no table yet. (One that ends before the await changes nothing.)
AddUserArrive(d) ==
    /\ requests[d].pc = "idle"
    /\ \E req \in AddUserBodies, salt \in Salts :
        /\ handlerAddUser(req, handedOut.user + 1, salt).calls # <<>>
        /\ requests' = [requests EXCEPT ![d] = [pc |-> "hashed", op |-> "addUser", req |-> req]]
    /\ UNCHANGED <<users, chirps, refreshTokens, now, handedOut, revoked, resp,
                   deliveries, logins, codec, bcrypt, config>>

\* the registration goes on: createUser runs on the table as it is now
AddUserWrite(d) ==
    /\ requests[d].pc = "hashed" /\ requests[d].op = "addUser"
    /\ \E salt \in Salts :
        LET out == handlerAddUser(requests[d].req, handedOut.user + 1, salt)
        IN /\ Apply("addUser", out)
           /\ requests' = [requests EXCEPT ![d] = [pc |-> "done", status |-> out.status]]
    /\ UNCHANGED <<revoked, deliveries, logins, codec, bcrypt, config>>

\* A self-update arrives, has its token verified and runs up to await
\* hashPassword(password): it has read no table yet, and goes on with the
\* token's subject and the body's fields. (One that ends before the await
\* changes nothing.)
UpdateUserArrive(d) ==
    /\ requests[d].pc = "idle"
    /\ \E req \in {r \in UpdateUserRequests : r.userId = NoUserId}, salt \in Salts :
        /\ handlerUpdateUser(req, salt).calls # <<>>
        /\ requests' = [requests EXCEPT ![d] =
               [pc |-> "hashed", op |-> "updateUser",
                req |-> [userId |-> validateJWT(getBearerToken(req.auth).val,
                                                jwtSecret, now).val,
                         email |-> req.email, password |-> req.password]]]
    /\ UNCHANGED <<users, chirps, refreshTokens, now, handedOut, revoked, resp,
                   deliveries, logins, codec, bcrypt, config>>

\* the self-update goes on: updateUser runs on the table as it is now
UpdateUserWrite(d) ==
    /\ requests[d].pc = "hashed" /\ requests[d].op = "updateUser"
    /\ \E salt \in Salts :
        LET out == updateUserWrite(requests[d].req.userId, requests[d].req.email,
                                   hashPassword(requests[d].req.password, salt))
        IN /\ Apply("updateUser", out)
           /\ requests' = [requests EXCEPT ![d] = [pc |-> "done", status |-> out.status]]
    /\ UNCHANGED <<revoked, deliveries, logins, codec, bcrypt, config>>

\* -------------------------------------------- the password functions alone
\* hashPassword(password) is called: bcrypt draws a salt no call drew before
HashPassword ==
    /\ Len(bcrypt.hashes) < MaxHashes
    /\ \E password \in Passwords :
        bcrypt' = [bcrypt EXCEPT !.hashes =
                      Append(@, hashPassword(password, Len(bcrypt.hashes) + 1))]
    /\ UNCHANGED <<users, chirps, refreshTokens, now, handedOut, revoked, resp,
                   deliveries, logins, codec, config, requests>>

\* verifyPassword(password, hash) is called on a hash made before
VerifyPassword ==
    /\ \E password \in Passwords, i \in DOMAIN bcrypt.hashes :
        bcrypt' = [bcrypt EXCEPT !.result =
                      [kind |-> "result", password |-> password, hash |-> i,
                       out |-> verifyPassword(password, bcrypt.hashes[i])]]
    /\ UNCHANGED <<users, chirps, refreshTokens, now, handedOut, revoked, resp,
                   deliveries, logins, codec, config, requests>>

\* a delivery arrives and runs up to its read of the users table
PolkaRead(d) ==
    /\ deliveries[d].pc = "idle"
    /\ \E req \in WebhookRequests :
        LET read == polkaRead(req)
        IN deliveries' = [deliveries EXCEPT ![d] =
               IF read.ended
               THEN [pc |-> "done", req |-> req, user |-> NoRow,
                     status |-> read.out.status]
               ELSE [pc |-> "read", req |-> req, user |-> read.user,
                     userId |-> read.userId]]
    /\ UNCHANGED <<users, chirps, refreshTokens, now, handedOut, revoked, resp,
                   logins, codec, bcrypt, config, requests>>

\* the delivery goes on with the row it read: it answers, after its write if
\* it makes one
PolkaUpgrade(d) ==
    /\ deliveries[d].pc = "read"
    /\ LET out == polkaUpgrade(deliveries[d].userId, deliveries[d].user)
       IN /\ users' = out.users
          /\ deliveries' = [deliveries EXCEPT ![d] =
                 [pc |-> "done", req |-> deliveries[d].req,
                  user |-> deliveries[d].user, status |-> out.status]]
    /\ UNCHANGED <<chirps, refreshTokens, now, handedOut, revoked, resp, logins, codec,
                   bcrypt, config, requests>>

Next ==
    \/ AddUser
    \/ Login
    \/ Refresh
    \/ Revoke
    \/ CreateChirp
    \/ DeleteChirp
    \/ UpdateUser
    \/ PolkaWebhook
    \/ Tick

Spec == Init /\ [][Next]_vars

\* The endpoints that read or write refresh_tokens, with registration.
NextSession ==
    \/ AddUser
    \/ Login
    \/ Refresh
    \/ Revoke
    \/ Tick

SpecSession == Init /\ [][NextSession]_vars

\* The endpoints that take their caller from an access token, with
\* registration and login.
NextChirps ==
    \/ AddUser
    \/ Login
    \/ CreateChirp
    \/ DeleteChirp
    \/ Tick

SpecChirps == Init /\ [][NextChirps]_vars

\* Every endpoint that wants an access token, with registration, login and
\* the clock.
NextAccess ==
    \/ AddUser
    \/ Login
    \/ CreateChirp
    \/ DeleteChirp
    \/ UpdateUser
    \/ Tick

SpecAccess == Init /\ [][NextAccess]_vars

\* The endpoints that change rows on behalf of a caller, with registration
\* and login, all served within the lifetime of the first access token.
NextIdentity ==
    \/ AddUser
    \/ Login
    \/ CreateChirp
    \/ DeleteChirp
    \/ UpdateUser

SpecIdentity == Init /\ [][NextIdentity]_vars

\* Registration, login, self-update and the webhook.
NextProfile ==
    \/ AddUser
    \/ Login
    \/ UpdateUser
    \/ PolkaWebhook

SpecProfile == Init /\ [][NextProfile]_vars

\* Registration, login and the webhook, each delivery served in one step.
NextPolka ==
    \/ AddUser
    \/ Login
    \/ PolkaWebhook

SpecPolka == Init /\ [][NextPolka]_vars

\* Registration, logins whose read and write interleave with other requests,
\* chirp creation and the deletion of all users.
NextCascade ==
    \/ AddUser
    \/ \E d \in 1..MaxLogins : LoginRead(d)
    \/ \E d \in 1..MaxLogins : LoginWrite(d)
    \/ CreateChirp
    \/ Reset

SpecCascade == Init /\ [][NextCascade]_vars

\* The requests that make, read and remove chirps, with registration, login
\* and the deletion of all users.
NextOwner ==
    \/ AddUser
    \/ Login
    \/ CreateChirp
    \/ GetChirp
    \/ DeleteChirp
    \/ Reset

SpecOwner == Init /\ [][NextOwner]_vars

\* Logins that keep their access token, and the requests that change what
\* the store holds about the session and its user.
NextStateless ==
    \/ AddUser
    \/ \E d \in 1..MaxLogins : LoginRead(d)
    \/ \E d \in 1..MaxLogins : LoginWrite(d)
    \/ Revoke
    \/ UpdateUser
    \/ Reset

SpecStateless == Init /\ [][NextStateless]_vars

\* The life of a refresh-token row: made by login, read by refresh, written
\* by revoke, removed with its user, while the clock runs.
NextTokens ==
    \/ AddUser
    \/ Login
    \/ Refresh
    \/ Revoke
    \/ Reset
    \/ Tick

SpecTokens == Init /\ [][NextTokens]_vars

\* Registrations and self-updates whose store calls interleave, with login.
NextUnique ==
    \/ AddUser
    \/ Login
    \/ \E d \in 1..MaxRequests : AddUserArrive(d)
    \/ \E d \in 1..MaxRequests : AddUserWrite(d)
    \/ \E d \in 1..MaxRequests : UpdateUserArrive(d)
    \/ \E d \in 1..MaxRequests : UpdateUserWrite(d)

SpecUnique == Init /\ [][NextUnique]_vars

\* Webhook deliveries served in one step between the arrival and the write
\* of self-updates, with registration and login.
NextPremium ==
    \/ AddUser
    \/ Login
    \/ PolkaWebhook
    \/ \E d \in 1..MaxRequests : UpdateUserArrive(d)
    \/ \E d \in 1..MaxRequests : UpdateUserWrite(d)

SpecPremium == Init /\ [][NextPremium]_vars

\* Chirp creation with bodies around the length limit.
NextLimit ==
    \/ AddUser
    \/ Login
    \/ CreateChirpAtLimit

SpecLimit == Init /\ [][NextLimit]_vars

\* The admin route on a server started with any PLATFORM, with the requests
\* that fill the tables and the counter it resets.
NextAdmin ==
    \/ AddUser
    \/ Login
    \/ CreateChirp
    \/ FileServerHit
    \/ Reset

SpecAdmin == InitAnyPlatform /\ [][NextAdmin]_vars

\* hashPassword and verifyPassword called with any passwords.
NextPassword ==
    \/ HashPassword
    \/ VerifyPassword

SpecPassword == Init /\ [][NextPassword]_vars

\* makeJWT and validateJWT called with any arguments while the clock runs.
NextCodec ==
    \/ Issue
    \/ Verify
    \/ Second

SpecCodec == Init /\ [][NextCodec]_vars

\* Registration and webhook deliveries whose reads and writes interleave.
NextWebhook ==
    \/ AddUser
    \/ \E d \in 1..MaxDeliveries : PolkaRead(d)
    \/ \E d \in 1..MaxDeliveries : PolkaUpgrade(d)

SpecWebhook == Init /\ [][NextWebhook]_vars

\* ================================================================ claims
\* the header value starts with 'Bearer '
StartsWithBearer(h) == Len(h) >= 2 /\ h[1] = Lit("Bearer")

\* the row of refresh_tokens is there, is not revoked and now is before its expiry
Usable(token) ==
    /\ token \in DOMAIN refreshTokens
    /\ refreshTokens[token].revokedAt = Null
    /\ now < refreshTokens[token].expiresAt

\* C1: once a revoke request for a refresh token has completed, every refresh
\* request presenting that token answers 401 and mints no access token,
\* expired or not.
C1_RevocationIsPermanent ==
    \A h \in SessionHeaders :
        (StartsWithBearer(h) /\ h[2] \in revoked) =>
            /\ handlerRefresh(h).status = 401
            /\ handlerRefresh(h).mint = {}

\* a refresh was refused while a revoked token is still before its expiry
C1_Witness ==
    /\ resp = [op |-> "refresh", status |-> 401]
    /\ \E t \in revoked :
        /\ t \in DOMAIN refreshTokens
        /\ now < refreshTokens[t].expiresAt
        /\ handlerRefresh(<<Lit("Bearer"), t>>).status = 401

\* C2: a refresh request answers 200 with a new access token exactly when the
\* presented token has a row, the row is not revoked and now < expiresAt;
\* otherwise, the instant now = expiresAt included, it answers 401.
C2_RefreshIffUsable ==
    \A h \in SessionHeaders :
        IF StartsWithBearer(h) /\ Usable(h[2])
        THEN handlerRefresh(h).status = 200 /\ handlerRefresh(h).mint # {}
        ELSE handlerRefresh(h).status = 401 /\ handlerRefresh(h).mint = {}

\* C3: a login with an email no user has and a login with a user's email and
\* a wrong password answer the same 401, and neither adds a refresh-token row.
C3_LoginFailuresCollapse ==
    \A unknown \in LoginBodies, wrong \in LoginBodies :
        (/\ unknown.email # Missing /\ unknown.password # Missing
         /\ UsersWithEmail(unknown.email) = {}
         /\ wrong.email # Missing /\ wrong.password # Missing
         /\ \E i \in UsersWithEmail(wrong.email) :
                ~verifyPassword(wrong.password, users[i].hashedPassword)) =>
            LET a == handlerLogin(unknown, Opaque(handedOut.token + 1))
                b == handlerLogin(wrong, Opaque(handedOut.token + 1))
            IN /\ a.status = 401 /\ b.status = 401
               /\ a.body = b.body
               /\ a.refreshTokens = refreshTokens /\ b.refreshTokens = refreshTokens

\* C6: a successful refresh leaves the store as it was: no row of any table
\* changes, so the presented token is as usable after it as before.
C6_RefreshLeavesStore ==
    \A h \in SessionHeaders :
        handlerRefresh(h).status = 200 =>
            /\ handlerRefresh(h).refreshTokens = refreshTokens
            /\ handlerRefresh(h).users = users
            /\ handlerRefresh(h).chirps = chirps

\* a refresh has succeeded and the same token succeeds again
C6_Witness ==
    /\ resp = [op |-> "refresh", status |-> 200]
    /\ \E t \in DOMAIN refreshTokens :
        /\ handlerRefresh(<<Lit("Bearer"), t>>).status = 200
        /\ handlerRefresh(<<Lit("Bearer"), t>>).refreshTokens[t].revokedAt = Null

\* C9: revoking a token that is already revoked, or that has no row, raises
\* nothing and leaves the store as it was, the revocation timestamp included.
C9_RevokeIdempotent ==
    \A h \in SessionHeaders :
        (/\ StartsWithBearer(h)
         /\ \/ h[2] \notin DOMAIN refreshTokens
            \/ refreshTokens[h[2]].revokedAt # Null) =>
            /\ handlerRevoke(h).status = 204
            /\ handlerRevoke(h).refreshTokens = refreshTokens

\* C10: the revoke endpoint answers 204 without a body for every header that
\* starts with 'Bearer ', whatever the state of the token, and 401 for every
\* other header.
C10_RevokeAnswers ==
    \A h \in SessionHeaders :
        IF StartsWithBearer(h)
        THEN handlerRevoke(h).status = 204 /\ handlerRevoke(h).body = NoBody
        ELSE handlerRevoke(h).status = 401

\* a revoke has answered 204, and would again for a token that is revoked and
\* past its expiry, and for a string that names no row
C10_Witness ==
    /\ resp = [op |-> "revoke", status |-> 204]
    /\ \E t \in DOMAIN refreshTokens :
        /\ refreshTokens[t].revokedAt # Null
        /\ refreshTokens[t].expiresAt < now
        /\ handlerRevoke(<<Lit("Bearer"), t>>).status = 204
    /\ handlerRevoke(<<Lit("Bearer"), Junk>>).status = 204

\* the caller an access-token endpoint sees: the subject of a header that
\* carries a token signed by the server and not yet expired, else NoUserId
Caller(h) ==
    IF /\ StartsWithBearer(h)
       /\ h[2].kind = "jwt"
       /\ h[2].key = jwtSecret
       /\ now < h[2].exp
    THEN h[2].sub ELSE NoUserId

\* C4: for every chirp in the store and every caller whose verified token
\* subject is not the chirp's owner, the delete request answers 403 and the
\* chirp is still in the store.
C4_NoDeleteByOthers ==
    \A req \in DeleteChirpRequests :
        (/\ Caller(req.auth) # NoUserId
         /\ req.chirpId \in DOMAIN chirps
         /\ chirps[req.chirpId].userId # Caller(req.auth)) =>
            /\ handlerDeleteChirp(req).status = 403
            /\ handlerDeleteChirp(req).chirps = chirps

\* a delete was refused with 403 and the chirp of the other user is there
C4_Witness ==
    /\ resp = [op |-> "deleteChirp", status |-> 403]
    /\ \E req \in DeleteChirpRequests :
        /\ Caller(req.auth) # NoUserId
        /\ req.chirpId \in DOMAIN chirps
        /\ chirps[req.chirpId].userId # Caller(req.auth)
        /\ handlerDeleteChirp(req).status = 403

\* C5: chirp creation, chirp deletion and self-update take the caller from
\* the verified token subject only: requests that differ only in the userId
\* field of the body get the same response and leave the same store, and the
\* row written belongs to the token's subject.
C5_IdentityFromTokenOnly ==
    /\ \A req \in CreateChirpRequests, other \in BodyUserIds :
        LET a == handlerCreateChirp(req, handedOut.chirp + 1)
            b == handlerCreateChirp([req EXCEPT !.userId = other], handedOut.chirp + 1)
        IN /\ a = b
           /\ a.status = 201 => a.body.userId = Caller(req.auth)
    /\ \A req \in DeleteChirpRequests, other \in BodyUserIds :
        LET a == handlerDeleteChirp(req)
            b == handlerDeleteChirp([req EXCEPT !.userId = other])
        IN /\ a = b
           /\ a.status = 204 => chirps[req.chirpId].userId = Caller(req.auth)
    /\ \A req \in UpdateUserRequests, other \in BodyUserIds, salt \in Salts :
        LET a == handlerUpdateUser(req, salt)
            b == handlerUpdateUser([req EXCEPT !.userId = other], salt)
        IN /\ a = b
           /\ a.status = 200 => a.body.id = Caller(req.auth)

\* the second user has created a chirp with a body that names the first user,
\* and would own the next one too
C5_Witness ==
    /\ \E c \in DOMAIN chirps : chirps[c].userId = 2
    /\ \E req \in CreateChirpRequests :
        /\ Caller(req.auth) = 2
        /\ req.userId = 1
        /\ handlerCreateChirp(req, handedOut.chirp + 1).status = 201
        /\ handlerCreateChirp(req, handedOut.chirp + 1).body.userId = 2
    /\ \E req \in UpdateUserRequests, salt \in Salts :
        /\ Caller(req.auth) = 2
        /\ req.userId = 1
        /\ handlerUpdateUser(req, salt).status = 200

\* a user.upgraded delivery with the right key that names the user
UpgradeRequest(u) ==
    [auth |-> <<Lit("ApiKey"), Lit(polkaWebhookSecret)>>, event |-> "user.upgraded",
     data |-> <<u>>]

\* C7: a user.upgraded delivery for an existing user answers 204 and leaves
\* the user upgraded; delivered again to the store it left, it answers 204,
\* the user stays upgraded and no write is made.
C7_WebhookIdempotent ==
    \A u \in DOMAIN users :
        LET out == handlerPolkaWebhook(UpgradeRequest(u))
        IN /\ out.status = 204
           /\ out.users[u].isChirpyRed
           /\ users[u].isChirpyRed =>
                /\ out.users = users
                /\ out.calls = <<"getUserById">>

\* a delivery has upgraded a user and the same delivery would now write nothing
C7_Witness ==
    /\ resp = [op |-> "webhook", status |-> 204]
    /\ \E u \in DOMAIN users :
        /\ users[u].isChirpyRed
        /\ handlerPolkaWebhook(UpgradeRequest(u)).status = 204
        /\ handlerPolkaWebhook(UpgradeRequest(u)).calls = <<"getUserById">>

\* delivery d is a user.upgraded delivery for u that found u's row and has answered
Delivered(d, u) ==
    /\ deliveries[d].pc = "done"
    /\ deliveries[d].req = UpgradeRequest(u)
    /\ deliveries[d].user # NoRow

\* C8: two concurrent user.upgraded deliveries for the same existing user,
\* however their reads and writes interleave, both answer 204 and leave the
\* user's premium flag true.
C8_ConcurrentDeliveriesConverge ==
    \A d1 \in 1..MaxDeliveries, d2 \in 1..MaxDeliveries, u \in DOMAIN users :
        (d1 # d2 /\ Delivered(d1, u) /\ Delivered(d2, u)) =>
            /\ deliveries[d1].status = 204
            /\ deliveries[d2].status = 204
            /\ users[u].isChirpyRed

\* both deliveries read the row before either wrote it, and both have answered
C8_Witness ==
    \E d1 \in 1..MaxDeliveries, d2 \in 1..MaxDeliveries, u \in DOMAIN users :
        /\ d1 # d2
        /\ Delivered(d1, u) /\ Delivered(d2, u)
        /\ ~deliveries[d1].user.isChirpyRed
        /\ ~deliveries[d2].user.isChirpyRed
        /\ users[u].isChirpyRed

\* C11: for every caller with a valid access token, a delete request for a
\* chirp id that no row has answers 404, never 403, and changes no chirp.
C11_MissingChirpIsNotFound ==
    \A req \in DeleteChirpRequests :
        (Caller(req.auth) # NoUserId /\ req.chirpId \notin DOMAIN chirps) =>
            /\ handlerDeleteChirp(req).status = 404
            /\ handlerDeleteChirp(req).chirps = chirps

\* a delete of a chirp that was there and has been deleted was answered 404,
\* while a chirp of another user is in the store
C11_Witness ==
    /\ resp = [op |-> "deleteChirp", status |-> 404]
    /\ \E req \in DeleteChirpRequests :
        /\ Caller(req.auth) # NoUserId
        /\ req.chirpId \in (1..handedOut.chirp) \ DOMAIN chirps
        /\ handlerDeleteChirp(req).status = 404
        /\ \E c \in DOMAIN chirps : chirps[c].userId # Caller(req.auth)

\* C12: on chirp creation, chirp deletion and self-update, a request whose
\* Authorization header is missing or not Bearer, or whose token is malformed,
\* signed with another secret or expired, answers 401 and leaves every table
\* as it was.
C12_BadTokenIsUnauthorized ==
    /\ \A req \in CreateChirpRequests :
        Caller(req.auth) = NoUserId =>
            LET out == handlerCreateChirp(req, handedOut.chirp + 1)
            IN /\ out.status = 401
               /\ out.users = users /\ out.chirps = chirps
               /\ out.refreshTokens = refreshTokens
    /\ \A req \in DeleteChirpRequests :
        Caller(req.auth) = NoUserId =>
            LET out == handlerDeleteChirp(req)
            IN /\ out.status = 401
               /\ out.users = users /\ out.chirps = chirps
               /\ out.refreshTokens = refreshTokens
    /\ \A req \in UpdateUserRequests, salt \in Salts :
        Caller(req.auth) = NoUserId =>
            LET out == handlerUpdateUser(req, salt)
            IN /\ out.status = 401
               /\ out.users = users /\ out.chirps = chirps
               /\ out.refreshTokens = refreshTokens

\* an update was refused with 401; a token the server signed has expired, a
\* live one is sent under another scheme, and a chirp of the caller is there
C12_Witness ==
    /\ resp = [op |-> "updateUser", status |-> 401]
    /\ \E req \in DeleteChirpRequests :
        /\ StartsWithBearer(req.auth)
        /\ req.auth[2].kind = "jwt" /\ req.auth[2].key = jwtSecret
        /\ now >= req.auth[2].exp
        /\ req.chirpId \in DOMAIN chirps
        /\ chirps[req.chirpId].userId = req.auth[2].sub
        /\ handlerDeleteChirp(req).status = 401
    /\ \E req \in CreateChirpRequests :
        /\ req.auth # <<>> /\ req.auth[1] = Lit("ApiKey")
        /\ now < req.auth[2].exp
        /\ req.body = <<"Fornax", "hi">>
        /\ handlerCreateChirp(req, handedOut.chirp + 1).status = 401

\* the body names a user and gives that user's password
CorrectCredentials(req) ==
    /\ req.email # Missing /\ req.password # Missing
    /\ getUserByEmail(req.email) # NoRow
    /\ verifyPassword(req.password, getUserByEmail(req.email).hashedPassword)

\* C13: a login with the correct email and password answers 200 and adds
\* exactly one refresh-token row, owned by the user who logged in, with
\* revokedAt null and expiresAt 60 days after its creation; every other row
\* stays as it was, and a refresh with the new token succeeds right away.
C13_LoginStoresOneToken ==
    [][ (resp' = [op |-> "login", status |-> 200] /\ handedOut' # handedOut) =>
            /\ \A req \in LoginBodies :
                CorrectCredentials(req) =>
                    LET t == Opaque(handedOut.token + 1)
                        out == handlerLogin(req, t)
                    IN /\ out.status = 200
                       /\ out.body.refreshToken = t
                       /\ DOMAIN out.refreshTokens = DOMAIN refreshTokens \cup {t}
                       /\ t \notin DOMAIN refreshTokens
                       /\ out.refreshTokens[t].user_id = getUserByEmail(req.email).id
            /\ \E t \in {Opaque(n) : n \in 1..MaxTokens} :
               /\ t = Opaque(handedOut'.token)
               /\ DOMAIN refreshTokens' = DOMAIN refreshTokens \cup {t}
               /\ Cardinality(DOMAIN refreshTokens') = Cardinality(DOMAIN refreshTokens) + 1
               /\ \A k \in DOMAIN refreshTokens : refreshTokens'[k] = refreshTokens[k]
               /\ \E req \in LoginBodies :
                    /\ CorrectCredentials(req)
                    /\ refreshTokens'[t].user_id = getUserByEmail(req.email).id
               /\ refreshTokens'[t].revokedAt = Null
               /\ refreshTokens'[t].createdAt = now'
               /\ refreshTokens'[t].expiresAt = now' + 60 * 24 * 60 * 60
               /\ Usable(t)'
               /\ handlerRefresh(<<Lit("Bearer"), t>>)'.status = 200
      ]_vars

\* a login has just been answered 200 and its token opens a session
C13_Witness ==
    /\ resp = [op |-> "login", status |-> 200]
    /\ \E t \in DOMAIN refreshTokens :
        /\ refreshTokens[t].createdAt = now
        /\ now > 0
        /\ refreshTokens[t].revokedAt = Null
        /\ handlerRefresh(<<Lit("Bearer"), t>>).status = 200

\* the TTL the login policy gives a request: 3600 when none is asked for or
\* the one asked for is not in 1..3600, else the one asked for
ClampedTTL(expiresIn) ==
    IF expiresIn = <<>> THEN 3600
    ELSE IF expiresIn[1] <= 0 \/ expiresIn[1] > 3600 THEN 3600
    ELSE expiresIn[1]

\* C14: the access token a login mints lives for the requested TTL clamped
\* to 3600 s: 3600 when the request gives none, one <= 0 or one > 3600, else
\* the requested one; no login mints a token with exp - iat above 3600.
C14_LoginClampsTTL ==
    \A req \in LoginBodies :
        LET out == handlerLogin(req, Opaque(handedOut.token + 1))
        IN out.status = 200 =>
            /\ out.body.token.exp - out.body.token.iat = ClampedTTL(req.expiresIn)
            /\ out.body.token.exp - out.body.token.iat <= 3600

\* C18: a login leaves every refresh-token row already stored as it was, the
\* user's own earlier ones included: a token usable before the login is
\* usable after it.
C18_LoginKeepsOtherSessions ==
    \A req \in LoginBodies :
        LET out == handlerLogin(req, Opaque(handedOut.token + 1))
        IN \A t \in DOMAIN refreshTokens :
            /\ t \in DOMAIN out.refreshTokens
            /\ out.refreshTokens[t] = refreshTokens[t]
            /\ Usable(t) => /\ out.refreshTokens[t].revokedAt = Null
                            /\ now < out.refreshTokens[t].expiresAt

\* one user holds two refresh tokens and both open a session
C18_Witness ==
    /\ resp = [op |-> "login", status |-> 200]
    /\ \E t1 \in DOMAIN refreshTokens, t2 \in DOMAIN refreshTokens :
        /\ t1 # t2
        /\ refreshTokens[t1].user_id = refreshTokens[t2].user_id
        /\ refreshTokens[t1].createdAt < refreshTokens[t2].createdAt
        /\ handlerRefresh(<<Lit("Bearer"), t1>>).status = 200
        /\ handlerRefresh(<<Lit("Bearer"), t2>>).status = 200

\* validateJWT was called on the token last issued, with the secret given
VerifiedWith(secret) ==
    /\ codec.token # NoToken
    /\ codec.result # NoResult
    /\ codec.result.secret = secret

\* C15: expiry is exclusive and in whole seconds: a token with a subject,
\* verified with the secret it was signed with, is accepted exactly while
\* now < exp and refused as expired exactly when now >= exp; one issued with
\* a lifetime <= 0 is never accepted.
C15_ExpiryIsExclusive ==
    /\ \A userId \in Subjects \ {NoUserId}, expiresIn \in Lifetimes, secret \in Secrets,
         iat \in 0..now :
        LET out == validateJWT(makeJWT(userId, expiresIn, secret, iat), secret, now)
        IN /\ out.ok <=> now < iat + expiresIn
           /\ ~out.ok <=> now >= iat + expiresIn
           /\ ~out.ok => out.err = [name |-> "UnauthorizedError",
                                    message |-> "Token has expired"]
           /\ expiresIn <= 0 => ~out.ok
    /\ (VerifiedWith(codec.token.key) /\ codec.token.sub # NoUserId) =>
        /\ codec.result.out.ok <=> codec.result.at < codec.token.exp
        /\ ~codec.result.out.ok =>
              codec.result.out.err.message = "Token has expired"
        /\ codec.token.exp <= codec.token.iat => ~codec.result.out.ok

\* a token that was issued for one second has been refused in the second it
\* expires in
C15_Witness ==
    /\ VerifiedWith(codec.token.key)
    /\ codec.token.sub # NoUserId
    /\ codec.token.exp = codec.token.iat + 1
    /\ codec.result.at = codec.token.exp
    /\ ~codec.result.out.ok

\* C16: for every non-empty user id, positive lifetime and secret,
\* validateJWT(makeJWT(userId, ttl, secret), secret) in the second of
\* issuance returns userId.
C16_RoundTrip ==
    /\ \A userId \in Subjects \ {NoUserId}, expiresIn \in 1..MaxTTL, secret \in Secrets :
        validateJWT(makeJWT(userId, expiresIn, secret, now), secret, now) = Ok(userId)
    /\ (/\ VerifiedWith(codec.token.key)
        /\ codec.token.sub # NoUserId
        /\ codec.token.exp > codec.token.iat
        /\ codec.result.at = codec.token.iat) =>
            codec.result.out = Ok(codec.token.sub)

\* the second user's token, issued after the clock started, came back as
\* that user's id in the same second
C16_Witness ==
    /\ VerifiedWith(codec.token.key)
    /\ codec.token.iat > 0
    /\ codec.result.at = codec.token.iat
    /\ codec.result.out = Ok(2)

\* C17: validateJWT with a secret other than the one the token was signed
\* with refuses the token as invalid and returns no subject, before and after
\* its expiry.
C17_WrongSecretFails ==
    /\ \A userId \in Subjects, expiresIn \in Lifetimes, signed \in Secrets,
         given \in Secrets, iat \in 0..now :
        signed # given =>
            validateJWT(makeJWT(userId, expiresIn, signed, iat), given, now) =
                Throw("UnauthorizedError", "Invalid token")
    /\ (/\ codec.token # NoToken
        /\ codec.result # NoResult
        /\ codec.result.secret # codec.token.key) =>
            /\ ~codec.result.out.ok
            /\ codec.result.out.err.message = "Invalid token"
            /\ errorHandler(codec.result.out.err).status = 401

\* a token with a subject and time left was verified with the other secret
C17_Witness ==
    /\ codec.token # NoToken
    /\ codec.result # NoResult
    /\ codec.result.secret # codec.token.key
    /\ codec.token.sub # NoUserId
    /\ codec.result.at < codec.token.exp
    /\ ~codec.result.out.ok

\* C19: every stored refresh token and every stored chirp references a user
\* that exists, whatever the interleaving of logins, chirp creations and the
\* deletion of users: the deletion takes the users' tokens and chirps with
\* them, and a login that read a user deleted since fails and stores nothing.
C19_RowsReferenceUsers ==
    /\ \A t \in DOMAIN refreshTokens : refreshTokens[t].user_id \in DOMAIN users
    /\ \A c \in DOMAIN chirps : chirps[c].userId \in DOMAIN users
    /\ DOMAIN handlerReset.users = {}
    /\ DOMAIN handlerReset.refreshTokens = {}
    /\ DOMAIN handlerReset.chirps = {}
    /\ \A d \in DOMAIN logins :
        (logins[d].pc = "read" /\ logins[d].user.id \notin DOMAIN users) =>
            LET out == loginWrite(logins[d].user, Opaque(handedOut.token + 1))
            IN /\ out.status = 500
               /\ out.refreshTokens = refreshTokens
               /\ out.mint = {}

\* a login found its user deleted when it came to store the token; another
\* user has registered since, logged in and written a chirp
C19_Witness ==
    /\ \E d \in DOMAIN logins :
        /\ logins[d].pc = "done"
        /\ logins[d].user # NoRow
        /\ logins[d].status = 500
        /\ logins[d].user.id \notin DOMAIN users
    /\ DOMAIN refreshTokens # {}
    /\ DOMAIN chirps # {}

\* C20: a registration with an email a user already holds fails and leaves
\* the users table as it was: no row is added and the holder's id, password
\* hash and premium flag are untouched; no two users ever hold one email.
C20_DuplicateEmailRejected ==
    /\ \A req \in AddUserBodies, salt \in Salts :
        (/\ req.email # Missing /\ req.password # Missing
         /\ UsersWithEmail(req.email) # {}) =>
            LET out == handlerAddUser(req, handedOut.user + 1, salt)
            IN /\ out.status = 400
               /\ out.body = [error |-> "Email already exists"]
               /\ out.users = users
               /\ out.chirps = chirps /\ out.refreshTokens = refreshTokens
    /\ \A i \in DOMAIN users, j \in DOMAIN users :
        users[i].email = users[j].email => i = j

\* a registration was refused with 400 and the holder of the email is premium
C20_Witness ==
    /\ resp = [op |-> "addUser", status |-> 400]
    /\ \E i \in DOMAIN users, req \in AddUserBodies, salt \in Salts :
        /\ users[i].isChirpyRed
        /\ req.email = users[i].email
        /\ req.password # Missing
        /\ handlerAddUser(req, handedOut.user + 1, salt).status = 400

\* C21: a uniqueness violation on email, raised by a registration with or by
\* a self-update to an email another user holds, is answered 409.
C21_DuplicateEmailIsConflict ==
    /\ \A req \in AddUserBodies, salt \in Salts :
        (/\ req.email # Missing /\ req.password # Missing
         /\ UsersWithEmail(req.email) # {}) =>
            handlerAddUser(req, handedOut.user + 1, salt).status = 409
    /\ \A req \in UpdateUserRequests, salt \in Salts :
        (/\ Caller(req.auth) \in DOMAIN users
         /\ req.email # Missing /\ req.password # Missing
         /\ UsersWithEmail(req.email) \ {Caller(req.auth)} # {}) =>
            handlerUpdateUser(req, salt).status = 409

\* the kind of a failure: the class of the error thrown, a uniqueness
\* violation reported by the store being a conflict
KindOf(err) ==
    IF err.name = "BadRequestError" THEN "BadRequest"
    ELSE IF err.name = "UnauthorizedError" THEN "Unauthorized"
    ELSE IF err.name = "ForbiddenError" THEN "Forbidden"
    ELSE IF err.name = "NotFoundError" THEN "NotFound"
    ELSE IF err.name = "ConflictError" THEN "Conflict"
    ELSE IF err.name = "PostgresError"
            /\ err.message = "duplicate key value violates unique constraint"
         THEN "Conflict"
    ELSE "Other"

\* the status each kind of failure is to be answered with
StatusOf(kind) ==
    IF kind = "BadRequest" THEN 400
    ELSE IF kind = "Unauthorized" THEN 401
    ELSE IF kind = "Forbidden" THEN 403
    ELSE IF kind = "NotFound" THEN 404
    ELSE IF kind = "Conflict" THEN 409
    ELSE 500

\* what the handlers answer to every request that can be sent now
Outcomes ==
    {handlerAddUser(req, handedOut.user + 1, salt) : req \in AddUserBodies, salt \in Salts}
    \cup {handlerLogin(req, Opaque(handedOut.token + 1)) : req \in LoginBodies}
    \cup {handlerRefresh(h) : h \in SessionHeaders}
    \cup {handlerRevoke(h) : h \in SessionHeaders}
    \cup {handlerCreateChirp(req, handedOut.chirp + 1) : req \in CreateChirpRequests}
    \cup {handlerDeleteChirp(req) : req \in DeleteChirpRequests}
    \cup {handlerUpdateUser(req, salt) : req \in UpdateUserRequests, salt \in Salts}
    \cup {handlerPolkaWebhook(req) : req \in WebhookRequests}

\* C22: every failure a handler raises is answered with the one status of its
\* kind: BadRequest 400, Unauthorized 401, Forbidden 403, NotFound 404,
\* Conflict 409, anything else 500.
C22_OneStatusPerKind ==
    \A out \in Outcomes :
        "thrown" \in DOMAIN out => out.status = StatusOf(KindOf(out.thrown))

\* C23: getBearerToken fails with Unauthorized when the header is absent or
\* does not start with 'Bearer ', and otherwise returns all of the header
\* after that prefix, also when that part holds spaces or is empty.
C23_BearerTokenIsTheRest ==
    \A h \in SessionHeaders :
        IF StartsWithBearer(h)
        THEN /\ getBearerToken(h).ok
             /\ <<getBearerToken(h).val>> = Tail(h)
        ELSE /\ ~getBearerToken(h).ok
             /\ getBearerToken(h).err.name = "UnauthorizedError"

\* C24: whether an access token verifies depends on the token, the secret
\* and the time only: a token a login returned verifies until it expires,
\* whatever was done to the store since (its session's refresh token revoked,
\* the password changed, the user deleted), and the endpoints it opens do not
\* answer 401.
C24_AccessTokensAreStateless ==
    \A d \in LoggedIn :
        now < logins[d].token.exp =>
            /\ validateJWT(logins[d].token, jwtSecret, now) = Ok(logins[d].token.sub)
            /\ \A req \in UpdateUserRequests, salt \in Salts :
                req.auth = <<Lit("Bearer"), logins[d].token>> =>
                    handlerUpdateUser(req, salt).status # 401

\* one token's user has been deleted; the other token's user has changed the
\* password and every refresh token of that user has been revoked
C24_Witness ==
    \E d1 \in LoggedIn, d2 \in LoggedIn :
        /\ logins[d1].token.sub \notin DOMAIN users
        /\ logins[d2].token.sub \in DOMAIN users
        /\ users[logins[d2].token.sub].hashedPassword # logins[d2].user.hashedPassword
        /\ \E t \in DOMAIN refreshTokens : refreshTokens[t].user_id = logins[d2].token.sub
        /\ \A t \in DOMAIN refreshTokens :
            refreshTokens[t].user_id = logins[d2].token.sub =>
                refreshTokens[t].revokedAt # Null
        /\ validateJWT(logins[d1].token, jwtSecret, now).ok
        /\ validateJWT(logins[d2].token, jwtSecret, now).ok

HasValidKey(req) ==
    /\ Len(req.auth) >= 2
    /\ req.auth[1] = Lit("ApiKey")
    /\ req.auth[2] = Lit(polkaWebhookSecret)

\* C26: a webhook request with the valid key and an event other than exactly
\* 'user.upgraded' answers 204 and changes nothing, without a look at the
\* user it names, who may not exist.
C26_OtherEventsAreIgnored ==
    \A req \in WebhookRequests :
        (HasValidKey(req) /\ req.event # "user.upgraded") =>
            LET out == handlerPolkaWebhook(req)
            IN /\ out.status = 204
               /\ out.users = users
               /\ out.chirps = chirps /\ out.refreshTokens = refreshTokens
               /\ out.calls = <<>>

\* a delivery was answered 204 while a user is not premium; other events
\* naming that user and naming nobody are answered 204
C26_Witness ==
    /\ resp = [op |-> "webhook", status |-> 204]
    /\ \E u \in DOMAIN users, r1 \in WebhookRequests, r2 \in WebhookRequests :
        /\ ~users[u].isChirpyRed
        /\ HasValidKey(r1) /\ r1.event = "USER.UPGRADED" /\ r1.data = <<u>>
        /\ handlerPolkaWebhook(r1).status = 204
        /\ HasValidKey(r2) /\ r2.event = "user.payment_failed" /\ r2.data = <<NoUserId>>
        /\ handlerPolkaWebhook(r2).status = 204

\* C27: a webhook request whose Authorization header is absent, is not under
\* the ApiKey scheme or carries another key than the configured one answers
\* 401 before the event is looked at and upgrades no user, whatever the event
\* and the payload.
C27_WebhookWantsTheKey ==
    \A req \in WebhookRequests :
        ~HasValidKey(req) =>
            LET out == handlerPolkaWebhook(req)
            IN /\ out.status = 401
               /\ out.users = users
               /\ out.calls = <<>>

\* a delivery was answered 401; an upgrade of a user who is not premium sent
\* with a wrong key, and one sent with the key under Bearer, are answered 401
C27_Witness ==
    /\ resp = [op |-> "webhook", status |-> 401]
    /\ \E u \in DOMAIN users, r1 \in WebhookRequests, r2 \in WebhookRequests :
        /\ ~users[u].isChirpyRed
        /\ r1.event = "user.upgraded" /\ r1.data = <<u>>
        /\ r1.auth = <<Lit("ApiKey"), Lit("POLKA-KEY")>>
        /\ handlerPolkaWebhook(r1).status = 401
        /\ r2.event = "user.upgraded" /\ r2.data = <<u>>
        /\ r2.auth = <<Lit("Bearer"), Lit(polkaWebhookSecret)>>
        /\ handlerPolkaWebhook(r2).status = 401

\* C28: a delete by the chirp's owner answers 204 and removes that chirp and
\* no other, and a get of its id then answers 404; a chirp leaves the store
\* only through such a delete or with its owner, when the owner is deleted.
C28_OnlyOwnerRemoves ==
    [][ chirps' # chirps =>
        /\ \A req \in DeleteChirpRequests :
            (/\ req.chirpId \in DOMAIN chirps
             /\ Caller(req.auth) = chirps[req.chirpId].userId) =>
                /\ handlerDeleteChirp(req).status = 204
                /\ DOMAIN handlerDeleteChirp(req).chirps = DOMAIN chirps \ {req.chirpId}
                /\ \A k \in DOMAIN chirps \ {req.chirpId} :
                       handlerDeleteChirp(req).chirps[k] = chirps[k]
        /\ \A c \in DOMAIN chirps :
            c \notin DOMAIN chirps' =>
                \/ /\ resp' = [op |-> "deleteChirp", status |-> 204]
                   /\ DOMAIN chirps' = DOMAIN chirps \ {c}
                   /\ \A k \in DOMAIN chirps' : chirps'[k] = chirps[k]
                   /\ \E req \in DeleteChirpRequests :
                        /\ req.chirpId = c
                        /\ Caller(req.auth) = chirps[c].userId
                        /\ handlerDeleteChirp(req).status = 204
                   /\ handlerGetChirpById(c)'.status = 404
                \/ /\ resp' = [op |-> "reset", status |-> 200]
                   /\ chirps[c].userId \notin DOMAIN users'
                   /\ handlerGetChirpById(c)'.status = 404
      ]_vars

\* a get of a chirp its owner deleted was answered 404, and a chirp made
\* before it is still in the store
C28_Witness ==
    /\ resp = [op |-> "getChirp", status |-> 404]
    /\ \E kept \in DOMAIN chirps, gone \in (1..handedOut.chirp) \ DOMAIN chirps :
        /\ kept < gone
        /\ handlerGetChirpById(gone).status = 404
        /\ handlerGetChirpById(kept).status = 200

\* C29: verifyPassword(p, hashPassword(p)) is true, verifyPassword(q,
\* hashPassword(p)) is false for every q other than p, and two calls of
\* hashPassword give different hashes, also for one password, that both verify.
C29_HashAndVerify ==
    /\ \A i \in DOMAIN bcrypt.hashes, q \in Passwords :
        /\ verifyPassword(q, bcrypt.hashes[i]) \in BOOLEAN
        /\ verifyPassword(q, bcrypt.hashes[i]) <=> q = bcrypt.hashes[i].pw
    /\ \A i \in DOMAIN bcrypt.hashes, j \in DOMAIN bcrypt.hashes :
        i # j => bcrypt.hashes[i] # bcrypt.hashes[j]
    /\ bcrypt.result # NoResult =>
        bcrypt.result.out = (bcrypt.result.password = bcrypt.hashes[bcrypt.result.hash].pw)

\* one password was hashed twice and a wrong password was refused on the
\* second hash
C29_Witness ==
    /\ bcrypt.result # NoResult
    /\ ~bcrypt.result.out
    /\ \E i \in DOMAIN bcrypt.hashes :
        /\ i < bcrypt.result.hash
        /\ bcrypt.hashes[i].pw = bcrypt.hashes[bcrypt.result.hash].pw
        /\ bcrypt.hashes[i] # bcrypt.hashes[bcrypt.result.hash]
        /\ verifyPassword(bcrypt.hashes[i].pw, bcrypt.hashes[i])
        /\ verifyPassword(bcrypt.hashes[i].pw, bcrypt.hashes[bcrypt.result.hash])

\* C30: chirp deletion checks the token, then that the chirp exists, then that
\* the caller owns it, then deletes. A request whose token is missing,
\* malformed or expired answers 401 whether or not the chirp exists, and the
\* chirps table is neither read nor written before the token is verified.
C30_DeleteChecksInOrder ==
    \A req \in DeleteChirpRequests :
        LET out == handlerDeleteChirp(req)
        IN /\ Caller(req.auth) = NoUserId =>
                /\ out.status = 401
                /\ out.calls = <<>>
                /\ out.chirps = chirps
           /\ (Caller(req.auth) # NoUserId /\ req.chirpId \notin DOMAIN chirps) =>
                /\ out.status = 404
                /\ out.calls = <<"getChirpById">>
           /\ (Caller(req.auth) # NoUserId /\ req.chirpId \in DOMAIN chirps) =>
                IF chirps[req.chirpId].userId # Caller(req.auth)
                THEN out.status = 403 /\ out.calls = <<"getChirpById">>
                ELSE out.status = 204 /\ out.calls = <<"getChirpById", "deleteChirp">>

\* a delete was refused with 401; with an expired token of the server's own,
\* both a request for a chirp in the store and one for a chirp that is gone
\* answer 401 without a call to the store
C30_Witness ==
    /\ resp = [op |-> "deleteChirp", status |-> 401]
    /\ \E here \in DeleteChirpRequests, gone \in DeleteChirpRequests :
        /\ here.auth = gone.auth
        /\ StartsWithBearer(here.auth)
        /\ here.auth[2].kind = "jwt" /\ here.auth[2].key = jwtSecret
        /\ now >= here.auth[2].exp
        /\ here.chirpId \in DOMAIN chirps
        /\ gone.chirpId \notin DOMAIN chirps
        /\ handlerDeleteChirp(here).status = 401
        /\ handlerDeleteChirp(gone).status = 401
        /\ handlerDeleteChirp(here).calls = <<>>
        /\ handlerDeleteChirp(gone).calls = <<>>

\* C31: a user.upgraded webhook with the valid key whose payload names a user
\* id that no row has answers 404 after the one read, and leaves every table
\* as it was: no user is created, none is upgraded.
C31_UnknownUserIsNotFound ==
    \A u \in (NoUserId..MaxUsers) \ DOMAIN users :
        LET out == handlerPolkaWebhook(UpgradeRequest(u))
        IN /\ out.status = 404
           /\ out.thrown.name = "NotFoundError"
           /\ out.users = users
           /\ out.chirps = chirps /\ out.refreshTokens = refreshTokens
           /\ out.calls = <<"getUserById">>

\* a delivery was answered 404 while a user who is not premium is in the store
C31_Witness ==
    /\ resp = [op |-> "webhook", status |-> 404]
    /\ \E u \in DOMAIN users : ~users[u].isChirpyRed
    /\ \E u \in (NoUserId..MaxUsers) \ DOMAIN users :
        handlerPolkaWebhook(UpgradeRequest(u)).status = 404

C33_RefreshMintsForOwner ==
    \A h \in SessionHeaders :
        LET out == handlerRefresh(h)
        IN out.status = 200 =>
            /\ h[2] \in DOMAIN refreshTokens
            /\ out.mint = {out.body.token}
            /\ validateJWT(out.body.token, jwtSecret, now) = Ok(refreshTokens[h[2]].user_id)
            /\ refreshTokens[h[2]].user_id \in DOMAIN users
            /\ out.body.token.iat = now
            /\ out.body.token.exp - out.body.token.iat = 3600
            /\ validateJWT(out.body.token, jwtSecret, now + 3599).ok
            /\ ~validateJWT(out.body.token, jwtSecret, now + 3600).ok

\* a refresh has succeeded while two users each hold a usable refresh token,
\* and each token's refresh names its own user
C33_Witness ==
    /\ resp = [op |-> "refresh", status |-> 200]
    /\ \E t1 \in DOMAIN refreshTokens, t2 \in DOMAIN refreshTokens :
        /\ refreshTokens[t1].user_id # refreshTokens[t2].user_id
        /\ handlerRefresh(<<Lit("Bearer"), t1>>).status = 200
        /\ handlerRefresh(<<Lit("Bearer"), t2>>).status = 200
        /\ handlerRefresh(<<Lit("Bearer"), t1>>).body.token.sub = refreshTokens[t1].user_id
        /\ handlerRefresh(<<Lit("Bearer"), t2>>).body.token.sub = refreshTokens[t2].user_id

\* C34: a self-update with a valid access token whose body lacks the email or
\* the password answers 400 before the store is called and leaves the users
\* table, the caller's row included, as it was: the field that was sent is
\* not applied.
C34_PartialUpdateIsRefused ==
    \A req \in UpdateUserRequests, salt \in Salts :
        (/\ Caller(req.auth) # NoUserId
         /\ req.email = Missing \/ req.password = Missing) =>
            LET out == handlerUpdateUser(req, salt)
            IN /\ out.status = 400
               /\ out.thrown.name = "BadRequestError"
               /\ out.users = users
               /\ out.calls = <<>>

\* an update was answered 400; the caller is registered, and both a body with
\* only a new email and a body with only a new password are refused
C34_Witness ==
    /\ resp = [op |-> "updateUser", status |-> 400]
    /\ \E r1 \in UpdateUserRequests, r2 \in UpdateUserRequests, salt \in Salts :
        /\ r1.auth = r2.auth
        /\ Caller(r1.auth) \in DOMAIN users
        /\ r1.email # Missing /\ r1.email # users[Caller(r1.auth)].email
        /\ r1.password = Missing
        /\ r2.email = Missing /\ r2.password # Missing
        /\ handlerUpdateUser(r1, salt).status = 400
        /\ handlerUpdateUser(r2, salt).status = 400

\* C35: every chirp in the store has a body of at most 140 characters; a
\* creation request of a valid caller whose body is longer answers 400 and
\* stores nothing; and the body the filter returns is never longer than the
\* body it was given.
C35_BodiesAreShort ==
    /\ \A c \in DOMAIN chirps : BodyLength(chirps[c].body) <= 140
    /\ \A req \in LimitRequests :
        (Caller(req.auth) # NoUserId /\ BodyLength(req.body) > 140) =>
            LET out == handlerCreateChirp(req, handedOut.chirp + 1)
            IN /\ out.status = 400
               /\ out.chirps = chirps
               /\ out.calls = <<>>
    /\ \A body \in LimitBodies : BodyLength(cleanedBody(body)) <= BodyLength(body)

\* a body of 140 characters is stored as sent, a body of 140 with a word to
\* clean is stored shorter, and a creation was answered 400
C35_Witness ==
    /\ resp = [op |-> "createChirp", status |-> 400]
    /\ \E c \in DOMAIN chirps : BodyLength(chirps[c].body) = 140
    /\ \E c \in DOMAIN chirps :
        /\ chirps[c].body[1] = "****"
        /\ BodyLength(chirps[c].body) = 138

\* C36: no two rows of the users table hold the same email, however the store
\* calls of registrations and self-updates in flight interleave; a request
\* whose write would give a second row an email that is taken is refused by
\* the store and leaves the table as it was.
C36_EmailsAreUnique ==
    /\ \A i \in DOMAIN users, j \in DOMAIN users :
        users[i].email = users[j].email => i = j
    /\ \A d \in 1..MaxRequests, salt \in Salts :
        requests[d].pc = "hashed" =>
            LET out == IF requests[d].op = "addUser"
                       THEN handlerAddUser(requests[d].req, handedOut.user + 1, salt)
                       ELSE updateUserWrite(requests[d].req.userId, requests[d].req.email,
                                            hashPassword(requests[d].req.password, salt))
            IN \A i \in DOMAIN out.users, j \in DOMAIN out.users :
                out.users[i].email = out.users[j].email => i = j

\* a registration and a self-update were in flight together and both have
\* finished: the registration made the second user, and the self-update,
\* which wrote last, was refused by the store
C36_Witness ==
    /\ Cardinality(DOMAIN users) = 2
    /\ \E d1 \in 1..MaxRequests, d2 \in 1..MaxRequests :
        /\ d1 # d2
        /\ requests[d1].pc = "done" /\ requests[d2].pc = "done"
        /\ requests[d1].status = 500
        /\ requests[d2].status = 201
    /\ resp = [op |-> "updateUser", status |-> 500]

\* C37: a user whose isChirpyRed is true has it true after every step that
\* leaves the user in the store, whichever request takes the step: a
\* self-update that arrived before the upgrade and writes after it included.
C37_PremiumIsMonotonic ==
    [][users' # users =>
        \A u \in DOMAIN users \cap DOMAIN users' :
            users[u].isChirpyRed => users'[u].isChirpyRed]_vars

\* a self-update that was in flight has written the row of a premium user,
\* who is still premium
C37_Witness ==
    /\ resp = [op |-> "updateUser", status |-> 200]
    /\ \E d \in 1..MaxRequests, u \in DOMAIN users :
        /\ requests[d].pc = "done" /\ requests[d].status = 200
        /\ users[u].isChirpyRed
        /\ users[u].hashedPassword.pw = "pw2"

\* C38: a self-update that answers 200 leaves the refresh_tokens table as it
\* was, so every refresh token that was usable before it, the caller's own
\* included, is usable after it and a refresh presenting it answers 200.
C38_UpdateKeepsSessions ==
    [][resp' = [op |-> "updateUser", status |-> 200] =>
        /\ refreshTokens' = refreshTokens
        /\ \A t \in DOMAIN refreshTokens :
            Usable(t) =>
                /\ Usable(t)'
                /\ handlerRefresh(<<Lit("Bearer"), t>>)'.status = 200]_vars

\* a user has changed the password and both refresh tokens of that user,
\* made before the change, are still usable
C38_Witness ==
    /\ resp = [op |-> "updateUser", status |-> 200]
    /\ \E t1 \in DOMAIN refreshTokens, t2 \in DOMAIN refreshTokens :
        /\ t1 # t2
        /\ refreshTokens[t1].user_id = refreshTokens[t2].user_id
        /\ users[refreshTokens[t1].user_id].hashedPassword.pw = "pw2"
        /\ Usable(t1) /\ Usable(t2)
        /\ handlerRefresh(<<Lit("Bearer"), t1>>).status = 200
        /\ handlerRefresh(<<Lit("Bearer"), t2>>).status = 200

\* C39: on a platform other than 'dev', deleteAllUsers fails with Forbidden
\* and the reset request leaves users, chirps and refresh tokens as they were;
\* on 'dev' it leaves no user and, by the cascade, no chirp and no refresh
\* token.
C39_ResetOnlyOnDev ==
    IF config.platform = "dev"
    THEN /\ deleteAllUsers.ok
         /\ handlerReset.users = <<>>
         /\ handlerReset.chirps = <<>>
         /\ handlerReset.refreshTokens = <<>>
    ELSE /\ ~deleteAllUsers.ok
         /\ deleteAllUsers.err.name = "ForbiddenError"
         /\ handlerReset.users = users
         /\ handlerReset.chirps = chirps
         /\ handlerReset.refreshTokens = refreshTokens

\* on 'dev', a reset has emptied the three tables after a user, a chirp and
\* a refresh token had been made
C39_Witness ==
    /\ resp = [op |-> "reset", status |-> 200]
    /\ config.platform = "dev"
    /\ handedOut.user > 0 /\ handedOut.chirp > 0 /\ handedOut.token > 0
    /\ users = <<>> /\ chirps = <<>> /\ refreshTokens = <<>>

\* C40: on a platform other than 'dev' the reset request is answered 403 and
\* changes nothing: the file-server hit counter keeps its value and the
\* tables stay as they were.
C40_RejectedResetChangesNothing ==
    config.platform # "dev" =>
        /\ handlerReset.status = 403
        /\ handlerResetMetrics.fileServerHits = config.fileServerHits
        /\ handlerReset.users = users
        /\ handlerReset.chirps = chirps
        /\ handlerReset.refreshTokens = refreshTokens

====
